---------------------------- MODULE Spec2Model ----------------------------
(***************************************************************************)
(* A model of the modern-mgo compatibility wrapper: the cursor (ModernIt), *)
(* the auto-$set rule of the write facade, the session handles, the        *)
(* GridFS-style blob store and find-and-modify (ModernQ.Apply).            *)
(*                                                                         *)
(* Every subsystem has its own specification (SpecIt, SpecUpdate,          *)
(* SpecSession, SpecGridFS, SpecApply) over its own variables; the         *)
(* variables of the other subsystems stay at their idle values.            *)
(***************************************************************************)
EXTENDS Integers, Sequences, FiniteSets, TLC

VARIABLES
    \* ---- cursor (modern_iterator.go) ----
    it,         \* the ModernIt: [cursor, err]
    drv,        \* the driver's cursor: [batch, server, id, err]
    itLast,     \* the last call on the cursor: [call, ret, io, err, drvErr]
    itHist,     \* history: [everErr, failed, drained, closed, afterErr,
                \*           afterDrain, delivered]
    \* ---- write facade: the auto-$set rule ----
    upDoc,      \* the update document the caller passed
    upCall,     \* the operation called: [op, remove]
    upIssued,   \* the update document handed to the driver
    \* ---- session handles (ModernMGO) ----
    sess,       \* handle -> its ModernMGO, or NoSession
    client,     \* the shared driver client: [connected, disconnects]
    seLast,     \* the last session call: [op, h, ok, closed]
    seClosed,   \* history: the handles Close was called on
    \* ---- blob store (ModernGridFS, ModernGridFile) ----
    gf,         \* handle ("w" write mode, "r" read mode) -> ModernGridFile
    gfFiles,    \* the files collection: a set of file documents
    gfChunks,   \* the chunks collection: a set of chunk documents
    gfIndex,    \* the unique index on (files_id, n) exists
    gfLast,     \* the last call or server step: [op, h, out, err, wrote]
    gfHist,     \* history: [data, out, byName, afterClose,
                \*           openComplete, closedOk, writes, reads]
    \* ---- find-and-modify (ModernQ.Apply) ----
    apColl,     \* the collection: a set of documents [id, a]
    apNextId,   \* the identifier the next created document gets
    ap,         \* the Apply call in progress: [pc, filter, update, upsert,
                \*   returnNew, remove, wasUpsert]
    apRet,      \* what the last Apply returned: [done, info, err]
    apHist,     \* history: [noMatchAtStart, raced, created, conc]
    coRet,      \* what ModernColl.Upsert returned, if it was the last call:
                \*   [done, info, err, noMatch, changed, created]
    \* ---- bulk batches (ModernBulk) ----
    bk,         \* the batch: [ops, runs]
    bkColl,     \* the collection the batch writes to: documents [id, a]
    bkRet,      \* what the last Run returned: [done, nilResult, result,
                \*   err, ecases, counts]
    bkHist,     \* history: [submits, before]
    bx,         \* a BulkWriteException and its BulkError: [exc, done, ecases]
    \* ---- converters ----
    cv,         \* a conversion: [dir, src, out, back, stage]
    \* ---- decoding ----
    dc,         \* a decode: [op, src, dst, out, err]
    \* ---- Write, step by step ----
    wr,         \* a Write in progress: [pc, chunkSize, chunks, chunkIndex, length, rem, data, before]
    \* ---- round trips ----
    rt,         \* a round trip: [op, pc, timeout, elapsed, released, err, cursor, itCtx]
    \* ---- concurrent callers ----
    dg          \* the package variable and its callers: [flag, pc, saw]

itVars == <<it, drv, itLast, itHist>>
upVars == <<upDoc, upCall, upIssued>>
seVars == <<sess, client, seLast, seClosed>>
gfVars == <<gf, gfFiles, gfChunks, gfIndex, gfLast, gfHist>>
apVars == <<apColl, apNextId, ap, apRet, apHist, coRet>>
bkVars == <<bk, bkColl, bkRet, bkHist, bx>>
cvVars == <<cv>>
dcVars == <<dc>>
wrVars == <<wr>>
rtVars == <<rt>>
dgVars == <<dg>>

vars == <<it, drv, itLast, itHist, upDoc, upCall, upIssued,
          sess, client, seLast, seClosed,
          gf, gfFiles, gfChunks, gfIndex, gfLast, gfHist,
          apColl, apNextId, ap, apRet, apHist, coRet,
          bk, bkColl, bkRet, bkHist, bx, cv, dc, wr, rt, dg>>

\* What each subsystem's actions leave alone.
notItVars == <<upVars, seVars, gfVars, apVars, bkVars, cvVars, dcVars, wrVars, rtVars, dgVars>>
notUpVars == <<itVars, seVars, gfVars, apVars, bkVars, cvVars, dcVars, wrVars, rtVars, dgVars>>
notSeVars == <<itVars, upVars, gfVars, apVars, bkVars, cvVars, dcVars, wrVars, rtVars, dgVars>>
notGfVars == <<itVars, upVars, seVars, apVars, bkVars, cvVars, dcVars, wrVars, rtVars, dgVars>>
notApVars == <<itVars, upVars, seVars, gfVars, bkVars, cvVars, dcVars, wrVars, rtVars, dgVars>>
notBkVars == <<itVars, upVars, seVars, gfVars, apVars, cvVars, dcVars, wrVars, rtVars, dgVars>>
notCvVars == <<itVars, upVars, seVars, gfVars, apVars, bkVars, dcVars, wrVars, rtVars, dgVars>>
notDcVars == <<itVars, upVars, seVars, gfVars, apVars, bkVars, cvVars, wrVars, rtVars, dgVars>>
notWrVars == <<itVars, upVars, seVars, gfVars, apVars, bkVars, cvVars, dcVars, rtVars, dgVars>>
notRtVars == <<itVars, upVars, seVars, gfVars, apVars, bkVars, cvVars, dcVars, wrVars, dgVars>>
notDgVars == <<itVars, upVars, seVars, gfVars, apVars, bkVars, cvVars, dcVars, wrVars, rtVars>>

\* ------------------------------------------------------------------------
\* Bounds
\* ------------------------------------------------------------------------
MaxDocs == 3        \* documents a query can match
BatchSize == 2      \* documents the server returns per batch

Min(a, b) == IF a < b THEN a ELSE b

\* ========================================================================
\* Cursor: ModernIt over the driver's cursor
\* ========================================================================

NoErr == "nil"
ErrNotFound == "ErrNotFound"
TransportErr == "transport"
DecodeErr == "decode"
CloseErr == "closeErr"

\* The zero ModernIt, an iterator with no cursor and no error.
NoDrv == [batch |-> 0, server |-> 0, id |-> 0, err |-> NoErr]

\* ModernQ.Iter / ModernPipe.Iter: Find or Aggregate either fails (no cursor,
\* the error stored) or opens a cursor over n documents with the first batch
\* already delivered.
IterResults ==
    {[it |-> [cursor |-> "nil", err |-> TransportErr], drv |-> NoDrv]}
    \cup
    {[it |-> [cursor |-> "live", err |-> NoErr],
      drv |-> [batch |-> Min(BatchSize, n), server |-> n - Min(BatchSize, n),
               id |-> i, err |-> NoErr]] :
        <<n, i>> \in {x \in (0..MaxDocs) \X {0, 1} : x[1] > BatchSize => x[2] = 1}}

\* The driver's Cursor.Next: the outcomes [drv, ok, io] of one call. It
\* serves the buffered batch first; with the batch empty and the server
\* cursor alive it issues a getMore, which can fail.
DrvNext(d) ==
    IF d.err # NoErr THEN {[drv |-> d, ok |-> FALSE, io |-> FALSE]}
    ELSE IF d.batch > 0
        THEN {[drv |-> [d EXCEPT !.batch = @ - 1], ok |-> TRUE, io |-> FALSE]}
    ELSE IF d.id = 0 THEN {[drv |-> d, ok |-> FALSE, io |-> FALSE]}
    ELSE {[drv |-> [d EXCEPT !.err = TransportErr], ok |-> FALSE, io |-> TRUE]}
         \cup
         (IF d.server = 0
             THEN {[drv |-> [d EXCEPT !.id = 0], ok |-> FALSE, io |-> TRUE]}
             ELSE {[drv |-> [d EXCEPT !.batch = Min(BatchSize, d.server) - 1,
                                      !.server = @ - Min(BatchSize, d.server),
                                      !.id = i],
                    ok |-> TRUE, io |-> TRUE] :
                      i \in IF d.server > BatchSize THEN {1} ELSE {0, 1}})

\* The outcomes of decoding the current document: cursor.Decode into a
\* generic document, then mapStructToInterface into the caller's destination.
DecodeOutcomes == {NoErr, DecodeErr}

\* The decode-and-deliver tail of Next, after the driver's Next returned r.
NextAdvance(i, d) ==
    UNION {
        IF ~r.ok
            THEN {[it |-> [i EXCEPT !.err = r.drv.err], drv |-> r.drv,
                   ret |-> FALSE, io |-> r.io, fail |-> r.drv.err # NoErr]}
            ELSE {[it |-> [i EXCEPT !.err = e], drv |-> r.drv,
                   ret |-> (e = NoErr), io |-> r.io, fail |-> e # NoErr] :
                     e \in DecodeOutcomes}
        : r \in DrvNext(d)}

\* Mutant of Next: the sticky-error check at its head is missing.
NextOutcomesNoSticky(i, d) ==
    IF i.cursor = "nil"
        THEN {[it |-> [i EXCEPT !.err = ErrNotFound], drv |-> d,
               ret |-> FALSE, io |-> FALSE, fail |-> TRUE]}
        ELSE NextAdvance(i, d)

\* Mutant of Next: the end of the cursor is recorded as ErrNotFound.
NextOutcomesEndNotFound(i, d) ==
    IF i.err # NoErr
        THEN {[it |-> i, drv |-> d, ret |-> FALSE, io |-> FALSE, fail |-> FALSE]}
    ELSE IF i.cursor = "nil"
        THEN {[it |-> [i EXCEPT !.err = ErrNotFound], drv |-> d,
               ret |-> FALSE, io |-> FALSE, fail |-> TRUE]}
    ELSE {IF ~o.ret /\ o.it.err = NoErr
             THEN [o EXCEPT !.it.err = ErrNotFound] ELSE o : o \in NextAdvance(i, d)}

\* ModernIt.Next: the outcomes [it, drv, ret, io, fail] of one call.
NextOutcomes(i, d) ==
    IF i.err # NoErr
        THEN {[it |-> i, drv |-> d, ret |-> FALSE, io |-> FALSE, fail |-> FALSE]}
    ELSE IF i.cursor = "nil"
        THEN {[it |-> [i EXCEPT !.err = ErrNotFound], drv |-> d,
               ret |-> FALSE, io |-> FALSE, fail |-> TRUE]}
    ELSE NextAdvance(i, d)

ItNext ==
    \E o \in NextOutcomes(it, drv) :
        /\ it' = o.it
        /\ drv' = o.drv
        /\ itLast' = [call |-> "Next", ret |-> o.ret, io |-> o.io, err |-> o.it.err,
                      drvErr |-> NoErr]
        /\ itHist' = [itHist EXCEPT
                        !.everErr = @ \/ o.it.err # NoErr,
                        !.failed = @ \/ o.fail,
                        !.drained = @ \/ (~o.ret /\ o.it.err = NoErr),
                        !.afterErr = @ \/ itHist.everErr,
                        !.afterDrain = @ \/ itHist.drained,
                        !.delivered = IF o.ret THEN @ + 1 ELSE @]
        /\ UNCHANGED notItVars

\* The driver's Cursor.Close: kills the server cursor when it is still alive
\* (a round trip that can fail) and drops it; the outcomes [drv, err, io].
DrvClose(d) ==
    IF d.id = 0 THEN {[drv |-> d, err |-> NoErr, io |-> FALSE]}
    ELSE {[drv |-> [d EXCEPT !.id = 0, !.server = 0], err |-> e, io |-> TRUE] :
            e \in {NoErr, CloseErr}}

\* Mutant of Close: a close-time error replaces the recorded error.
CloseOverwrite(i, e) ==
    IF e # NoErr THEN [i EXCEPT !.err = e] ELSE i

\* ModernIt.Close: the error slot after the driver's Close returned e.
CloseSticky(i, e) ==
    IF e # NoErr /\ i.err = NoErr THEN [i EXCEPT !.err = e] ELSE i

ItClose ==
    /\ UNCHANGED notItVars
    /\ IF it.cursor # "nil"
           THEN \E c \in DrvClose(drv) :
                   /\ it' = CloseSticky(it, c.err)
                   /\ drv' = c.drv
                   /\ itLast' = [call |-> "Close", ret |-> FALSE, io |-> c.io,
                                 err |-> CloseSticky(it, c.err).err, drvErr |-> c.err]
                   /\ itHist' = [itHist EXCEPT
                                   !.everErr = @ \/ CloseSticky(it, c.err).err # NoErr,
                                   !.failed = @ \/ c.err # NoErr,
                                   !.closed = TRUE]
           ELSE /\ itLast' = [call |-> "Close", ret |-> FALSE, io |-> FALSE, err |-> it.err,
                              drvErr |-> NoErr]
                /\ itHist' = [itHist EXCEPT !.closed = TRUE]
                /\ UNCHANGED <<it, drv>>

\* ModernIt.All's loop: the states in which the loop over Next can end,
\* each with whether any call did server I/O or hit a failure.
RECURSIVE AllLoop(_, _, _, _, _)
AllLoop(i, d, io, fail, fuel) ==
    UNION {
        IF o.ret /\ fuel > 0
            THEN AllLoop(o.it, o.drv, io \/ o.io, fail \/ o.fail, fuel - 1)
            ELSE {[it |-> o.it, drv |-> o.drv, io |-> io \/ o.io, fail |-> fail \/ o.fail]}
        : o \in NextOutcomes(i, d)}

\* What All does with the error slot once the loop has ended: an iteration
\* error is returned and kept, anything else is reset.
AllReset(i) ==
    IF i.err # NoErr /\ i.err # ErrNotFound THEN i ELSE [i EXCEPT !.err = NoErr]

ItAll ==
    /\ UNCHANGED notItVars
    /\ IF it.err # NoErr
           THEN /\ itLast' = [call |-> "All", ret |-> FALSE, io |-> FALSE, err |-> it.err,
                              drvErr |-> NoErr]
                /\ UNCHANGED <<it, drv, itHist>>
       ELSE IF it.cursor = "nil"
           THEN /\ itLast' = [call |-> "All", ret |-> FALSE, io |-> FALSE, err |-> ErrNotFound,
                              drvErr |-> NoErr]
                /\ UNCHANGED <<it, drv, itHist>>
       ELSE \E o \in AllLoop(it, drv, FALSE, FALSE, MaxDocs + 1) :
               \E e \in DecodeOutcomes :
                   /\ it' = AllReset(o.it)
                   /\ drv' = o.drv
                   /\ itLast' = [call |-> "All", ret |-> FALSE, io |-> o.io,
                                 err |-> IF AllReset(o.it).err # NoErr
                                            THEN AllReset(o.it).err ELSE e,
                                 drvErr |-> NoErr]
                   /\ itHist' = [itHist EXCEPT
                                   !.everErr = @ \/ o.it.err # NoErr,
                                   !.failed = @ \/ o.fail \/ e # NoErr,
                                   !.drained = @ \/ o.it.err = NoErr]

InitIt ==
    /\ \E r \in IterResults \cup {[it |-> [cursor |-> "nil", err |-> NoErr], drv |-> NoDrv]} :
          /\ it = r.it
          /\ drv = r.drv
          /\ itHist = [everErr |-> r.it.err # NoErr, failed |-> r.it.err # NoErr,
                       drained |-> FALSE, closed |-> FALSE, afterErr |-> FALSE,
                       afterDrain |-> FALSE, delivered |-> 0]
    /\ itLast = [call |-> "Iter", ret |-> FALSE, io |-> TRUE, err |-> NoErr,
                 drvErr |-> NoErr]

\* The cursor while another subsystem runs: the zero ModernIt, untouched.
ItIdle ==
    /\ it = [cursor |-> "nil", err |-> NoErr]
    /\ drv = NoDrv
    /\ itHist = [everErr |-> FALSE, failed |-> FALSE, drained |-> FALSE,
                 closed |-> FALSE, afterErr |-> FALSE, afterDrain |-> FALSE,
                 delivered |-> 0]
    /\ itLast = [call |-> "Iter", ret |-> FALSE, io |-> FALSE, err |-> NoErr,
                 drvErr |-> NoErr]

NextIt == ItNext \/ ItClose \/ ItAll

\* ========================================================================
\* Documents and the value converter (legacy -> modern)
\* ========================================================================
\* A key is the sequence of its characters. A value is nil, an integer or a
\* document; a document is tagged with its representation: "M" (bson.M),
\* "map" (map[string]interface{}), "D" (bson.D), and "oM" / "oD" for the
\* modern driver's map and ordered pair list. Its pairs are a sequence of
\* [k, v]; an unordered map keeps them in the order of KeyList.

K_set == <<"$", "s", "e", "t">>
K_a == <<"a">>
K_adollar == <<"a", "$">>
KeyList == <<K_set, K_a, K_adollar>>

Nil == [t |-> "nil"]
IntV(i) == [t |-> "int", n |-> i]
Doc(r, pairs) == [t |-> r, kv |-> pairs]
IsDoc(x) == x.t \in {"M", "map", "D", "oM", "oD"}

\* strings.HasPrefix(k, "$")
HasDollarPrefix(k) == Len(k) >= 1 /\ k[1] = "$"


\* hasUpdateOperators: only the two map types are inspected.
hasUpdateOperators(doc) ==
    IF doc.t = "nil" THEN FALSE
    ELSE IF doc.t = "M" THEN \E j \in 1..Len(doc.kv) : HasDollarPrefix(doc.kv[j].k)
    ELSE IF doc.t = "map" THEN \E j \in 1..Len(doc.kv) : HasDollarPrefix(doc.kv[j].k)
    ELSE FALSE

\* wrapInSetOperator
wrapInSetOperator(doc) ==
    IF hasUpdateOperators(doc) THEN doc
    ELSE Doc("M", <<[k |-> K_set, v |-> doc]>>)

\* Further values: an array is [t, el] with its elements in order, tagged
\* "A" ([]interface{}, the same type on both sides), "sliceM" ([]bson.M),
\* "ids" ([]bson.ObjectId) or "pA" (the driver's primitive.A). A legacy
\* identifier is [t |-> "oid", b] with b its bytes, the driver's is "pOid";
\* a legacy timestamp is [t |-> "time", ns], the driver's is "pDT" with ms.
ObjectIdLen == 12
NsPerMs == 1000000

Arr(r, elems) == [t |-> r, el |-> elems]
ObjectId(bytes) == [t |-> "oid", b |-> bytes]
Time(n) == [t |-> "time", ns |-> n]

\* Mutant of ObjectIdToOfficial: the last byte is not copied.
ObjectIdToOfficialShortCopy(v) ==
    IF Len(v.b) = ObjectIdLen
       THEN [t |-> "pOid", b |-> [j \in 1..ObjectIdLen |->
                                     IF j = ObjectIdLen THEN 0 ELSE v.b[j]]]
       ELSE v

\* case bson.ObjectId, and each element of case []bson.ObjectId: an
\* identifier of 12 bytes is copied into a primitive.ObjectID, any other
\* is passed on as it is.
ObjectIdToOfficial(v) ==
    IF Len(v.b) = ObjectIdLen THEN [t |-> "pOid", b |-> v.b] ELSE v

\* Mutant of DateTimeFromTime: the next millisecond.
DateTimeFromTimeRoundUp(v) == [t |-> "pDT", ms |-> (v.ns \div NsPerMs) + 1]

\* primitive.NewDateTimeFromTime: whole milliseconds since the epoch.
DateTimeFromTime(v) == [t |-> "pDT", ms |-> v.ns \div NsPerMs]

\* Mutant of OfficialD: the pairs are appended in reverse.
OfficialDReversed(pairs) ==
    Doc("oD", [j \in 1..Len(pairs) |-> pairs[Len(pairs) + 1 - j]])

\* case bson.D: the elements are appended to an officialBson.D in order.
OfficialD(pairs) == Doc("oD", pairs)

\* convertMGOToOfficial
RECURSIVE convertMGOToOfficial(_)
convertMGOToOfficial(x) ==
    IF x.t = "nil" THEN Nil
    ELSE IF x.t = "M" \/ x.t = "map"
        THEN Doc("oM", [j \in 1..Len(x.kv) |->
                          [k |-> x.kv[j].k, v |-> convertMGOToOfficial(x.kv[j].v)]])
    ELSE IF x.t = "D"
        THEN OfficialD([j \in 1..Len(x.kv) |->
                          [k |-> x.kv[j].k, v |-> convertMGOToOfficial(x.kv[j].v)]])
    ELSE IF x.t = "sliceM" \/ x.t = "A"
        THEN Arr("A", [j \in 1..Len(x.el) |-> convertMGOToOfficial(x.el[j])])
    ELSE IF x.t = "ids"
        THEN Arr("A", [j \in 1..Len(x.el) |-> ObjectIdToOfficial(x.el[j])])
    ELSE IF x.t = "oid" THEN ObjectIdToOfficial(x)
    ELSE IF x.t = "time" THEN DateTimeFromTime(x)
    ELSE x

\* case primitive.ObjectID: bson.ObjectId(v[:])
ObjectIdToMGO(v) == ObjectId(v.b)

\* case primitive.DateTime: v.Time()
DateTimeToTime(v) == Time(v.ms * NsPerMs)

\* convertOfficialToMGO
RECURSIVE convertOfficialToMGO(_)
convertOfficialToMGO(x) ==
    IF x.t = "nil" THEN Nil
    ELSE IF x.t = "oM" \/ x.t = "map"
        THEN Doc("M", [j \in 1..Len(x.kv) |->
                         [k |-> x.kv[j].k, v |-> convertOfficialToMGO(x.kv[j].v)]])
    ELSE IF x.t = "oD"
        THEN Doc("D", [j \in 1..Len(x.kv) |->
                         [k |-> x.kv[j].k, v |-> convertOfficialToMGO(x.kv[j].v)]])
    ELSE IF x.t = "A"
        THEN Arr("A", [j \in 1..Len(x.el) |-> convertOfficialToMGO(x.el[j])])
    ELSE IF x.t = "pOid" THEN ObjectIdToMGO(x)
    ELSE IF x.t = "pDT" THEN DateTimeToTime(x)
    ELSE x

\* ========================================================================
\* Write facade: which update document reaches the driver
\* ========================================================================
MaxKeys == 2        \* top-level keys of an update document

KeyIdx(k) == CHOOSE j \in 1..Len(KeyList) : KeyList[j] = k

\* The values an update document's keys carry: a scalar, or a document
\* that itself holds a "$" key one level down.
UpdateValues == {IntV(1), Doc("M", <<[k |-> K_set, v |-> IntV(1)]>>)}

\* Pair lists over distinct keys; ordered by KeyList when sorted is asked.
PairLists(sorted) ==
    {p \in UNION {[1..n -> [k : {KeyList[j] : j \in 1..Len(KeyList)}, v : UpdateValues]] :
                    n \in 0..MaxKeys} :
        \A a, b \in 1..Len(p) :
            a < b => /\ p[a].k # p[b].k
                     /\ sorted => KeyIdx(p[a].k) < KeyIdx(p[b].k)}

UpdateDocs ==
    {Nil} \cup {Doc("M", p) : p \in PairLists(TRUE)}
          \cup {Doc("map", p) : p \in PairLists(TRUE)}
          \cup {Doc("D", p) : p \in PairLists(FALSE)}

\* The update document an operation hands to UpdateOne / UpdateMany /
\* FindOneAndUpdate.
IssuedUpdate(u) == convertMGOToOfficial(wrapInSetOperator(u))

UpIssue(op, u) ==
    /\ upDoc' = u
    /\ upCall' = [op |-> op, remove |-> FALSE]
    /\ upIssued' = IssuedUpdate(u)
    /\ UNCHANGED notUpVars

CollUpdate == \E u \in UpdateDocs : UpIssue("Update", u)
CollUpdateId == \E u \in UpdateDocs : UpIssue("UpdateId", u)
CollUpdateAll == \E u \in UpdateDocs : UpIssue("UpdateAll", u)
CollUpsert == \E u \in UpdateDocs : UpIssue("Upsert", u)

\* ModernQ.Apply: a remove issues FindOneAndDelete and no update document.
QueryApplyIssue ==
    \E u \in UpdateDocs, rm \in BOOLEAN :
        /\ upDoc' = u
        /\ upCall' = [op |-> "Apply", remove |-> rm]
        /\ upIssued' = IF rm THEN Nil ELSE IssuedUpdate(u)
        /\ UNCHANGED notUpVars

UpIdle == upDoc = Nil /\ upCall = [op |-> "none", remove |-> FALSE] /\ upIssued = Nil

\* ========================================================================
\* Session handles: Dial, Copy, Clone, Close over one driver client
\* ========================================================================
MaxHandles == 3         \* session handles alive at once
MaxDisconnects == 2     \* Disconnect calls followed

Handles == 1..MaxHandles
Modes == {"Primary", "Secondary"}
NoSession == [exists |-> FALSE]

\* DialModernMGO / Dial / DialWithTimeout: the dialed handle.
Dialed == [exists |-> TRUE, client |-> "client", mode |-> "Primary",
           isOriginal |-> TRUE, depth |-> 0]

\* Mutant of Copy: the copy inherits the source's isOriginal flag.
CopyKeepsOriginal(m) ==
    [exists |-> TRUE, client |-> m.client, mode |-> m.mode,
     isOriginal |-> m.isOriginal, depth |-> m.depth + 1]

\* ModernMGO.Copy: the same client, marked as a copy. depth counts the
\* copies between the handle and the dialed one.
CopyOf(m) ==
    [exists |-> TRUE, client |-> m.client, mode |-> m.mode,
     isOriginal |-> FALSE, depth |-> m.depth + 1]

FreeHandle == CHOOSE h \in Handles : ~sess[h].exists /\ \A g \in 1..(h - 1) : sess[g].exists

SessionCopy(h) ==
    /\ sess[h].exists
    /\ \E g \in Handles : ~sess[g].exists
    /\ sess' = [sess EXCEPT ![FreeHandle] = CopyOf(sess[h])]
    /\ seLast' = [op |-> "Copy", h |-> h, ok |-> TRUE, closed |-> seClosed]
    /\ UNCHANGED <<client, seClosed>>
    /\ UNCHANGED notSeVars

\* ModernMGO.Clone behaves like Copy.
SessionClone(h) ==
    /\ sess[h].exists
    /\ \E g \in Handles : ~sess[g].exists
    /\ sess' = [sess EXCEPT ![FreeHandle] = CopyOf(sess[h])]
    /\ seLast' = [op |-> "Clone", h |-> h, ok |-> TRUE, closed |-> seClosed]
    /\ UNCHANGED <<client, seClosed>>
    /\ UNCHANGED notSeVars

\* ModernMGO.Close: only the original handle disconnects the client.
SessionClose(h) ==
    /\ sess[h].exists
    /\ IF sess[h].isOriginal /\ sess[h].client # "nil"
          THEN /\ client.disconnects < MaxDisconnects
               /\ client' = [connected |-> FALSE, disconnects |-> client.disconnects + 1]
          ELSE client' = client
    /\ seClosed' = seClosed \cup {h}
    /\ seLast' = [op |-> "Close", h |-> h, ok |-> TRUE, closed |-> seClosed \cup {h}]
    /\ UNCHANGED sess
    /\ UNCHANGED notSeVars

\* ModernMGO.SetMode
SessionSetMode(h, mode) ==
    /\ sess[h].exists
    /\ sess' = [sess EXCEPT ![h].mode = mode]
    /\ seLast' = [op |-> "SetMode", h |-> h, ok |-> TRUE, closed |-> seClosed]
    /\ UNCHANGED <<client, seClosed>>
    /\ UNCHANGED notSeVars

\* ModernMGO.Ping: the driver answers only while the client is connected.
SessionPing(h) ==
    /\ sess[h].exists
    /\ seLast' = [op |-> "Ping", h |-> h, ok |-> client.connected, closed |-> seClosed]
    /\ UNCHANGED <<sess, client, seClosed>>
    /\ UNCHANGED notSeVars

SeIdle ==
    /\ sess = [h \in Handles |-> NoSession]
    /\ client = [connected |-> FALSE, disconnects |-> 0]
    /\ seLast = [op |-> "none", h |-> 0, ok |-> TRUE, closed |-> {}]
    /\ seClosed = {}

\* ========================================================================
\* Blob store: ModernGridFS and ModernGridFile (modern_types.go)
\* ========================================================================
MaxLen == 3             \* bytes one write-mode file accepts
MaxBuf == 2             \* length of a buffer passed to Write or Read

\* Create's chunk size, 255 * 1024 in the source, scaled down.
ChunkSizeDefault == 2

Bytes == {"a", "b"}
ZeroByte == "z"
BadElem == "bad"
BytesUpTo(n) == UNION {[1..k -> Bytes] : k \in 0..n}

ErrEOF == "EOF"
ErrClosed == "file is closed"
ErrDupKey == "duplicate key"

FileName == "f"
WriterId == "W"
ForeignId == "F"
WriterDate == 1
ForeignDate == 0

\* The handle variable before Create or Open has filled it.
NoHandle ==
    [exists |-> FALSE, id |-> "none", filename |-> "", chunkSize |-> 0,
     length |-> 0, uploadDate |-> 0, chunks |-> <<>>, loaded |-> FALSE,
     closed |-> FALSE, readPos |-> 0, chunkIndex |-> 0, chunkPos |-> 0,
     saving |-> FALSE, saveI |-> 0]

\* ModernGridFS.Create: chunks is an empty, non-nil slice (loaded).
Created(name) ==
    [exists |-> TRUE, id |-> WriterId, filename |-> name,
     chunkSize |-> ChunkSizeDefault, length |-> 0, uploadDate |-> WriterDate,
     chunks |-> <<>>, loaded |-> TRUE, closed |-> FALSE, readPos |-> 0,
     chunkIndex |-> 0, chunkPos |-> 0, saving |-> FALSE, saveI |-> 0]

\* The length Open and OpenId take from a file document: only an int64 or
\* an int32 value is accepted, any other type leaves the length zero.
DocLength(d) == IF d.lengthType \in {"int64", "int32"} THEN d.length ELSE 0

\* The handle Open and OpenId build from a file document: chunks is nil.
\* The upload date comes back as a DateTime, which the type switch of Open
\* does not accept, so the handle's date stays zero.
Opened(d) ==
    [exists |-> TRUE, id |-> d.id, filename |-> d.filename,
     chunkSize |-> d.chunkSize, length |-> DocLength(d), uploadDate |-> 0,
     chunks |-> <<>>, loaded |-> FALSE, closed |-> FALSE, readPos |-> 0,
     chunkIndex |-> 0, chunkPos |-> 0, saving |-> FALSE, saveI |-> 0]

\* FindOne on the files collection by name, sorted by uploadDate descending.
NameMatches(name) == {d \in gfFiles : d.filename = name}
NewestByName(name) ==
    CHOOSE d \in NameMatches(name) :
        \A e \in NameMatches(name) : e.uploadDate <= d.uploadDate

\* FindOne on the files collection by _id.
IdMatches(id) == {d \in gfFiles : d.id = id}

\* ---- Write ----
\* Mutant of spaceInChunk: a chunk is taken to have room for one byte more.
spaceInChunkOneMore(f, cur) == f.chunkSize + 1 - Len(cur)

\* Room left in the current chunk.
spaceInChunk(f, cur) == f.chunkSize - Len(cur)

\* The loop of Write over the bytes that remain.
RECURSIVE WriteLoop(_, _)
WriteLoop(f, rem) ==
    IF rem = <<>> THEN f
    ELSE LET f1 == IF f.chunkIndex >= Len(f.chunks)
                      THEN [f EXCEPT !.chunks = Append(@, <<>>)]
                      ELSE f
             cur == f1.chunks[f1.chunkIndex + 1]
             space == spaceInChunk(f1, cur)
         IN IF space <= 0
               THEN WriteLoop([f1 EXCEPT !.chunkIndex = @ + 1], rem)
               ELSE LET toWrite == Min(Len(rem), space)
                        f2 == [f1 EXCEPT
                                 !.chunks[f1.chunkIndex + 1] =
                                     cur \o SubSeq(rem, 1, toWrite),
                                 !.length = @ + toWrite]
                        f3 == IF Len(f2.chunks[f2.chunkIndex + 1]) >= f2.chunkSize
                                 THEN [f2 EXCEPT !.chunkIndex = @ + 1]
                                 ELSE f2
                    IN WriteLoop(f3, SubSeq(rem, toWrite + 1, Len(rem)))

\* Write on an open handle: a nil chunk list is initialised first.
WriteOpen(f, buf) ==
    WriteLoop(IF f.loaded THEN f
              ELSE [f EXCEPT !.loaded = TRUE, !.chunks = <<>>,
                             !.chunkIndex = 0, !.chunkPos = 0],
              buf)

\* ---- Read ----
\* One element of an array-typed chunk as a byte: a value outside 0..255
\* or of another type leaves the zero byte.
CoerceElem(e) == IF e \in Bytes THEN e ELSE ZeroByte

\* The bytes Read takes from the data field of a chunk document.
ChunkBytes(c) ==
    CASE c.kind \in {"bytes", "Binary"} -> c.data
      [] c.kind = "array" -> [j \in 1..Len(c.data) |-> CoerceElem(c.data[j])]
      [] OTHER -> <<>>

\* Mutant of NextChunk: the chunks come back in descending order of n.
NextChunkDescending(S) == CHOOSE c \in S : \A d \in S : d.n <= c.n

\* The cursor over the chunks of a file is sorted by n ascending.
NextChunk(S) == CHOOSE c \in S : \A d \in S : c.n <= d.n

\* The chunk list Read builds from the cursor: a chunk whose data has an
\* unknown type or no bytes is skipped.
RECURSIVE LoadFrom(_, _)
LoadFrom(S, acc) ==
    IF S = {} THEN acc
    ELSE LET c == NextChunk(S)
             data == ChunkBytes(c)
         IN LoadFrom(S \ {c}, IF Len(data) > 0 THEN Append(acc, data) ELSE acc)

LoadChunks(id) == LoadFrom({c \in gfChunks : c.files_id = id}, <<>>)

\* Mutant of ReadClip: the length of the file does not limit the read.
ReadNoClip(f, toRead) == toRead

\* "Don't read past the file length".
ReadClip(f, toRead) ==
    IF f.readPos + toRead > f.length THEN f.length - f.readPos ELSE toRead

\* The copy loop of Read: the handle and the bytes copied out so far.
RECURSIVE ReadLoop(_, _, _)
ReadLoop(f, remainingBytes, out) ==
    IF f.chunkIndex < Len(f.chunks) /\ remainingBytes > 0
       THEN LET currentChunk == f.chunks[f.chunkIndex + 1]
                availableInChunk == Len(currentChunk) - f.chunkPos
            IN IF availableInChunk <= 0
                  THEN ReadLoop([f EXCEPT !.chunkIndex = @ + 1, !.chunkPos = 0],
                                remainingBytes, out)
                  ELSE LET toRead == ReadClip(f, Min(availableInChunk, remainingBytes))
                           got == SubSeq(currentChunk, f.chunkPos + 1, f.chunkPos + toRead)
                           f1 == [f EXCEPT !.chunkPos = @ + toRead,
                                           !.readPos = @ + toRead]
                           f2 == IF f1.chunkPos >= Len(currentChunk)
                                    THEN [f1 EXCEPT !.chunkIndex = @ + 1, !.chunkPos = 0]
                                    ELSE f1
                       IN IF f2.readPos >= f2.length
                             THEN [f |-> f2, out |-> out \o got]
                             ELSE ReadLoop(f2, remainingBytes - toRead, out \o got)
       ELSE [f |-> f, out |-> out]

\* Read with a buffer of n bytes: the handle afterwards, the bytes returned
\* and the error.
ReadResult(f, n) ==
    IF f.closed THEN [f |-> f, out |-> <<>>, err |-> ErrClosed]
    ELSE IF f.readPos >= f.length THEN [f |-> f, out |-> <<>>, err |-> ErrEOF]
    ELSE LET f0 == IF f.loaded THEN f
                   ELSE [f EXCEPT !.loaded = TRUE, !.chunks = LoadChunks(f.id),
                                  !.chunkIndex = 0, !.chunkPos = 0, !.readPos = 0]
             r == ReadLoop(f0, n, <<>>)
         IN IF Len(r.out) = 0 /\ r.f.readPos >= r.f.length
               THEN [f |-> r.f, out |-> <<>>, err |-> ErrEOF]
               ELSE [f |-> r.f, out |-> r.out, err |-> NoErr]

\* ModernGridFile.Size
Size(f) == f.length

\* ---- Close and saveFile ----
\* Mutant of CloseIsNoOp: Close does not look at the closed flag.
CloseNeverNoOp(f) == FALSE

\* "if f.closed { return nil }"
CloseIsNoOp(f) == f.closed

\* The file document saveFile inserts; the length is an int64.
FileDoc(f) ==
    [id |-> f.id, filename |-> f.filename, length |-> f.length,
     lengthType |-> "int64", chunkSize |-> f.chunkSize,
     uploadDate |-> f.uploadDate]

\* The i-th chunk document saveFile inserts; a []byte is stored as Binary.
ChunkDoc(f, i) ==
    [files_id |-> f.id, n |-> i, kind |-> "Binary", data |-> f.chunks[i + 1]]

RECURSIVE Flatten(_)
Flatten(ss) == IF ss = <<>> THEN <<>> ELSE Head(ss) \o Flatten(Tail(ss))

\* All the bytes the file document accounts for are stored in chunks.
StoredComplete(d) == Len(Flatten(LoadChunks(d.id))) >= DocLength(d)

GfReturn(op, h, out, err, wrote) ==
    gfLast' = [op |-> op, h |-> h, out |-> out, err |-> err, wrote |-> wrote]

ClosedOk(h) == gfHist' = [gfHist EXCEPT !.closedOk = @ \/ h = "w"]

\* ModernGridFS.Create
GridFSCreate ==
    /\ ~gf["w"].exists
    /\ gf' = [gf EXCEPT !["w"] = Created(FileName)]
    /\ GfReturn("Create", "w", <<>>, NoErr, FALSE)
    /\ UNCHANGED <<gfFiles, gfChunks, gfIndex, gfHist>>
    /\ UNCHANGED notGfVars

\* ModernGridFile.SetChunkSize
GridFileSetChunkSize(size) ==
    /\ gf["w"].exists /\ ~gf["w"].saving /\ ~gf["w"].closed
    /\ gf' = [gf EXCEPT !["w"].chunkSize = size]
    /\ GfReturn("SetChunkSize", "w", <<>>, NoErr, FALSE)
    /\ gfHist' = [gfHist EXCEPT
                    !.resized = @ \/ (gfHist.writes > 0 /\ size # gf["w"].chunkSize)]
    /\ UNCHANGED <<gfFiles, gfChunks, gfIndex>>
    /\ UNCHANGED notGfVars

\* ModernGridFile.Write
GridFileWrite(buf) ==
    /\ gf["w"].exists /\ ~gf["w"].saving
    /\ Len(gfHist.data) + Len(buf) <= MaxLen
    /\ IF gf["w"].closed
          THEN /\ GfReturn("Write", "w", <<>>, ErrClosed, FALSE)
               /\ UNCHANGED <<gf, gfHist>>
          ELSE /\ gf' = [gf EXCEPT !["w"] = WriteOpen(gf["w"], buf)]
               /\ GfReturn("Write", "w", <<>>, NoErr, FALSE)
               /\ gfHist' = [gfHist EXCEPT !.data = @ \o buf,
                                            !.writes = Min(@ + Min(Len(buf), 1), 2)]
    /\ UNCHANGED <<gfFiles, gfChunks, gfIndex>>
    /\ UNCHANGED notGfVars

\* ModernGridFile.Close up to the first server call of saveFile, the
\* insert of the file document.
GridFileClose(h) ==
    /\ gf[h].exists /\ ~gf[h].saving
    /\ IF CloseIsNoOp(gf[h])
          THEN /\ GfReturn("Close", h, <<>>, NoErr, FALSE)
               /\ UNCHANGED <<gf, gfFiles, gfChunks, gfIndex, gfHist>>
          ELSE IF Len(gf[h].chunks) = 0
          THEN /\ gf' = [gf EXCEPT ![h].closed = TRUE]
               /\ GfReturn("Close", h, <<>>, NoErr, FALSE)
               /\ ClosedOk(h)
               /\ UNCHANGED <<gfFiles, gfChunks, gfIndex>>
          ELSE \/ /\ IdMatches(gf[h].id) = {}
                  /\ gfFiles' = gfFiles \cup {FileDoc(gf[h])}
                  /\ gf' = [gf EXCEPT ![h].saving = TRUE, ![h].saveI = 0]
                  /\ GfReturn("InsertFile", h, <<>>, NoErr, TRUE)
                  /\ UNCHANGED <<gfChunks, gfIndex, gfHist>>
               \/ /\ IdMatches(gf[h].id) # {}
                  /\ GfReturn("Close", h, <<>>, ErrDupKey, TRUE)
                  /\ UNCHANGED <<gf, gfFiles, gfChunks, gfIndex, gfHist>>
    /\ UNCHANGED notGfVars

\* saveFile: the insert of the next chunk document.
GridFileSaveChunk(h) ==
    /\ gf[h].exists /\ gf[h].saving /\ gf[h].saveI < Len(gf[h].chunks)
    /\ LET c == ChunkDoc(gf[h], gf[h].saveI)
           taken == gfIndex /\ \E d \in gfChunks : d.files_id = c.files_id /\ d.n = c.n
       IN \/ /\ ~taken
             /\ gfChunks' = gfChunks \cup {c}
             /\ gf' = [gf EXCEPT ![h].saveI = @ + 1]
             /\ GfReturn("InsertChunk", h, <<>>, NoErr, TRUE)
             /\ UNCHANGED <<gfFiles, gfIndex, gfHist>>
          \/ /\ taken
             /\ gf' = [gf EXCEPT ![h].saving = FALSE]
             /\ GfReturn("Close", h, <<>>, ErrDupKey, TRUE)
             /\ UNCHANGED <<gfFiles, gfChunks, gfIndex, gfHist>>
    /\ UNCHANGED notGfVars

\* saveFile: EnsureIndex on the chunks, then Close marks the handle closed.
GridFileSaveIndex(h) ==
    /\ gf[h].exists /\ gf[h].saving /\ gf[h].saveI = Len(gf[h].chunks)
    /\ gfIndex' = TRUE
    /\ gf' = [gf EXCEPT ![h].saving = FALSE, ![h].closed = TRUE]
    /\ GfReturn("Close", h, <<>>, NoErr, TRUE)
    /\ ClosedOk(h)
    /\ UNCHANGED <<gfFiles, gfChunks>>
    /\ UNCHANGED notGfVars

\* saveFile: the server call that comes next, the InsertOne of a chunk or
\* EnsureIndex, fails; saveFile returns the error and Close passes it on
\* with the handle left open.
GridFileSaveFault(h) ==
    /\ gf[h].exists /\ gf[h].saving
    /\ gf' = [gf EXCEPT ![h].saving = FALSE]
    /\ GfReturn("Close", h, <<>>, TransportErr, TRUE)
    /\ UNCHANGED <<gfFiles, gfChunks, gfIndex, gfHist>>
    /\ UNCHANGED notGfVars

\* What Open and OpenId record about the call.
OpenHist(byName, complete) ==
    gfHist' = [gfHist EXCEPT !.out = <<>>, !.reads = 0, !.byName = byName,
                             !.afterClose = gfHist.closedOk,
                             !.openComplete = complete]

\* ModernGridFS.Open
GridFSOpen(name) ==
    /\ ~gf["r"].exists
    /\ IF NameMatches(name) = {}
          THEN /\ GfReturn("Open", "r", <<>>, ErrNotFound, FALSE)
               /\ UNCHANGED <<gf, gfHist>>
          ELSE /\ gf' = [gf EXCEPT !["r"] = Opened(NewestByName(name))]
               /\ GfReturn("Open", "r", <<>>, NoErr, FALSE)
               /\ OpenHist(TRUE, StoredComplete(NewestByName(name)))
    /\ UNCHANGED <<gfFiles, gfChunks, gfIndex>>
    /\ UNCHANGED notGfVars

\* ModernGridFS.OpenId
GridFSOpenId(id) ==
    /\ ~gf["r"].exists
    /\ IF IdMatches(id) = {}
          THEN /\ GfReturn("OpenId", "r", <<>>, ErrNotFound, FALSE)
               /\ UNCHANGED <<gf, gfHist>>
          ELSE LET d == CHOOSE d \in IdMatches(id) : TRUE
               IN /\ gf' = [gf EXCEPT !["r"] = Opened(d)]
                  /\ GfReturn("OpenId", "r", <<>>, NoErr, FALSE)
                  /\ OpenHist(FALSE, StoredComplete(d))
    /\ UNCHANGED <<gfFiles, gfChunks, gfIndex>>
    /\ UNCHANGED notGfVars

\* ModernGridFile.Read with a buffer of n bytes
GridFileRead(n) ==
    /\ gf["r"].exists /\ ~gf["r"].saving
    /\ LET r == ReadResult(gf["r"], n)
       IN /\ gf' = [gf EXCEPT !["r"] = r.f]
          /\ GfReturn("Read", "r", r.out, r.err, FALSE)
          /\ gfHist' = [gfHist EXCEPT !.out = @ \o r.out,
                                       !.reads = Min(@ + Min(Len(r.out), 1), 2)]
    /\ UNCHANGED <<gfFiles, gfChunks, gfIndex>>
    /\ UNCHANGED notGfVars

\* Files stored before: file documents and their chunks.
StoredFile(id, date, len, lengthType) ==
    [id |-> id, filename |-> FileName, length |-> len,
     lengthType |-> lengthType, chunkSize |-> ChunkSizeDefault,
     uploadDate |-> date]
StoredChunk(id, n, kind, data) ==
    [files_id |-> id, n |-> n, kind |-> kind, data |-> data]

StoredFiles ==
    { \* one chunk of two bytes for a stored length of one
      [files |-> {StoredFile(ForeignId, ForeignDate, 1, "int64")},
       chunks |-> {StoredChunk(ForeignId, 0, "Binary", <<"b", "b">>)}],
      \* the last chunk holds more than the stored length accounts for
      [files |-> {StoredFile(ForeignId, ForeignDate, 2, "int32")},
       chunks |-> {StoredChunk(ForeignId, 0, "Binary", <<"b">>),
                   StoredChunk(ForeignId, 1, "Binary", <<"a", "b">>)}],
      \* an array-typed chunk with an element that is no byte
      [files |-> {StoredFile(ForeignId, ForeignDate, 2, "int64")},
       chunks |-> {StoredChunk(ForeignId, 0, "array", <<"a", BadElem>>)}],
      \* a chunk of an unknown type before a readable one
      [files |-> {StoredFile(ForeignId, ForeignDate, 2, "int64")},
       chunks |-> {StoredChunk(ForeignId, 0, "string", <<"a">>),
                   StoredChunk(ForeignId, 1, "Binary", <<"b">>)}],
      \* the length stored as a double
      [files |-> {StoredFile(ForeignId, ForeignDate, 2, "double")},
       chunks |-> {StoredChunk(ForeignId, 0, "Binary", <<"a", "b">>)}],
      \* two files of one name: one saved by this library and an older one
      [files |-> {StoredFile(ForeignId, ForeignDate, 1, "int64"),
                  StoredFile(WriterId, WriterDate, 2, "int64")},
       chunks |-> {StoredChunk(ForeignId, 0, "Binary", <<"b">>),
                   StoredChunk(WriterId, 0, "Binary", <<"a">>),
                   StoredChunk(WriterId, 1, "Binary", <<"b">>)}] }

GfNoCall == [op |-> "none", h |-> "none", out |-> <<>>, err |-> NoErr, wrote |-> FALSE]
GfNoHist ==
    [data |-> <<>>, out |-> <<>>, byName |-> FALSE,
     afterClose |-> FALSE, openComplete |-> FALSE, closedOk |-> FALSE,
     writes |-> 0, reads |-> 0, resized |-> FALSE]

GfIdle ==
    /\ gf = [h \in {"w", "r"} |-> NoHandle]
    /\ gfFiles = {}
    /\ gfChunks = {}
    /\ gfIndex = FALSE
    /\ gfLast = GfNoCall
    /\ gfHist = GfNoHist


\* ========================================================================
\* Find-and-modify: ModernQ.Apply (modern_query.go)
\* ========================================================================
MaxVal == 2         \* values of the field "a" of a document
MaxIds == 2         \* documents ever created in the collection
MaxConc == 1        \* writes of concurrent clients

Vals == 1..MaxVal
ErrNoDocuments == "ErrNoDocuments"

\* The documents of the collection that match the filter {a: v}.
Matching(v) == {d \in apColl : d.a = v}

\* change.Update: a plain document {a: u} or {$set: {a: u}}.
PlainUpdate(u) == Doc("M", <<[k |-> K_a, v |-> IntV(u)]>>)
SetUpdate(u) == Doc("M", <<[k |-> K_set, v |-> PlainUpdate(u)]>>)
ApplyUpdates == {PlainUpdate(u) : u \in Vals} \cup {SetUpdate(u) : u \in Vals}

\* The value the server's $set gives the field "a".
SetValue(updateDoc) == updateDoc.kv[1].v.kv[1].v.n

\* The zero ChangeInfo; upsertedId 0 stands for nil.
EmptyInfo == [updated |-> 0, removed |-> 0, matched |-> 0, upsertedId |-> 0]

ApNoCall ==
    [pc |-> "idle", filter |-> 0, update |-> Nil, upsert |-> FALSE,
     returnNew |-> FALSE, remove |-> FALSE, wasUpsert |-> FALSE]
ApNoRet == [done |-> FALSE, info |-> EmptyInfo, err |-> NoErr]
ApNoHist == [noMatchAtStart |-> FALSE, raced |-> FALSE, created |-> 0, conc |-> 0]

\* No ModernColl.Upsert, UpdateAll or RemoveAll has returned since the
\* last Apply.
CoNoRet ==
    [done |-> FALSE, op |-> "none", info |-> EmptyInfo, err |-> NoErr,
     noMatch |-> FALSE, changed |-> 0, created |-> 0]

ApReturn(info, err) ==
    /\ apRet' = [done |-> TRUE, info |-> info, err |-> err]
    /\ ap' = [ap EXCEPT !.pc = "idle"]

\* The documents the re-query after an upsert can return: FindOne with
\* the filter of the query.
RequeryFound(v, created) == Matching(v)

\* Apply with change.Remove: FindOneAndDelete.
ApplyRemove(v) ==
    /\ ap.pc = "idle"
    /\ ap' = [ApNoCall EXCEPT !.filter = v, !.remove = TRUE]
    /\ apHist' = [apHist EXCEPT !.noMatchAtStart = (Matching(v) = {}),
                                !.raced = FALSE, !.created = 0]
    /\ IF Matching(v) = {}
          THEN /\ apRet' = [done |-> TRUE, info |-> EmptyInfo, err |-> ErrNotFound]
               /\ UNCHANGED apColl
          ELSE \E d \in Matching(v) :
                 /\ apColl' = apColl \ {d}
                 /\ apRet' = [done |-> TRUE, info |-> [EmptyInfo EXCEPT !.removed = 1],
                              err |-> NoErr]
    /\ UNCHANGED apNextId
    /\ coRet' = CoNoRet
    /\ UNCHANGED notApVars

\* Apply up to FindOneAndUpdate: with change.Upsert the FindOne that looks
\* whether a document matches.
ApplyStart(v, update, upsert, returnNew) ==
    /\ ap.pc = "idle"
    /\ ap' = [pc |-> "update", filter |-> v, update |-> update,
              upsert |-> upsert, returnNew |-> returnNew, remove |-> FALSE,
              wasUpsert |-> upsert /\ Matching(v) = {}]
    /\ apHist' = [apHist EXCEPT !.noMatchAtStart = (Matching(v) = {}),
                                !.raced = FALSE, !.created = 0]
    /\ apRet' = ApNoRet
    /\ UNCHANGED <<apColl, apNextId>>
    /\ coRet' = CoNoRet
    /\ UNCHANGED notApVars

\* The ChangeInfo of the path on which FindOneAndUpdate returned doc.
InfoFor(wasUpsert, doc) ==
    IF wasUpsert THEN [EmptyInfo EXCEPT !.upsertedId = doc.id]
    ELSE [EmptyInfo EXCEPT !.updated = 1, !.matched = 1]

\* FindOneAndUpdate and what Apply makes of its result.
ApplyFindOneAndUpdate ==
    /\ ap.pc = "update"
    /\ LET u == SetValue(IssuedUpdate(ap.update))
       IN IF Matching(ap.filter) # {}
             THEN \E d \in Matching(ap.filter) :
                    LET after == [d EXCEPT !.a = u]
                    IN /\ apColl' = (apColl \ {d}) \cup {after}
                       /\ ApReturn(InfoFor(ap.wasUpsert,
                                           IF ap.returnNew THEN after ELSE d), NoErr)
                       /\ UNCHANGED <<apNextId, apHist>>
             ELSE IF ap.upsert
             THEN /\ apNextId <= MaxIds
                  /\ LET new == [id |-> apNextId, a |-> u]
                     IN /\ apColl' = apColl \cup {new}
                        /\ apNextId' = apNextId + 1
                        /\ apHist' = [apHist EXCEPT !.created = new.id]
                        /\ IF ap.returnNew
                              THEN ApReturn(InfoFor(ap.wasUpsert, new), NoErr)
                              ELSE IF ap.wasUpsert
                              THEN /\ ap' = [ap EXCEPT !.pc = "requery"]
                                   /\ UNCHANGED apRet
                              ELSE ApReturn(EmptyInfo, ErrNotFound)
             ELSE /\ ApReturn(EmptyInfo, ErrNotFound)
                  /\ UNCHANGED <<apColl, apNextId, apHist>>
    /\ UNCHANGED coRet
    /\ UNCHANGED notApVars

\* The FindOne after an upsert that returned no "before" document.
ApplyRequery ==
    /\ ap.pc = "requery"
    /\ LET found == RequeryFound(ap.filter, apHist.created)
       IN IF found = {}
             THEN ApReturn(EmptyInfo, ErrNotFound)
             ELSE \E d \in found :
                    ApReturn([EmptyInfo EXCEPT !.upsertedId = d.id], NoErr)
    /\ UNCHANGED <<apColl, apNextId, apHist>>
    /\ UNCHANGED coRet
    /\ UNCHANGED notApVars

\* Another client inserts a document.
ConcInsert(v) ==
    /\ apHist.conc < MaxConc
    /\ apNextId <= MaxIds
    /\ apColl' = apColl \cup {[id |-> apNextId, a |-> v]}
    /\ apNextId' = apNextId + 1
    /\ apHist' = [apHist EXCEPT !.conc = @ + 1, !.raced = @ \/ ap.pc # "idle"]
    /\ UNCHANGED <<ap, apRet>>
    /\ UNCHANGED coRet
    /\ UNCHANGED notApVars

\* Another client deletes a document.
ConcDelete ==
    /\ apHist.conc < MaxConc
    /\ \E d \in apColl : apColl' = apColl \ {d}
    /\ apHist' = [apHist EXCEPT !.conc = @ + 1, !.raced = @ \/ ap.pc # "idle"]
    /\ UNCHANGED <<ap, apRet, apNextId>>
    /\ UNCHANGED coRet
    /\ UNCHANGED notApVars

\* ---- ModernColl.Upsert (modern_collection.go) ----
\* The driver's UpdateResult of UpdateOne with upsert for the filter {a: v}
\* and $set {a: u}, when d is the matching document the server picked.
UpdateOneMatched(d, u) ==
    [matched |-> 1, modified |-> IF d.a = u THEN 0 ELSE 1, upsertedId |-> 0]
UpdateOneUpserted(id) == [matched |-> 0, modified |-> 0, upsertedId |-> id]

\* Mutant of UpsertInfo: the created identifier is not copied.
UpsertInfoNoId(result) ==
    [EmptyInfo EXCEPT !.updated = result.modified, !.matched = result.matched]

\* The ChangeInfo Upsert builds from the driver's UpdateResult.
UpsertInfo(result) ==
    [EmptyInfo EXCEPT !.updated = result.modified, !.matched = result.matched,
                      !.upsertedId = result.upsertedId]

\* ModernColl.Upsert: UpdateOne with SetUpsert(true).
UpsertRun(v, update) ==
    /\ ap.pc = "idle"
    /\ LET u == SetValue(IssuedUpdate(update))
       IN IF Matching(v) # {}
             THEN \E d \in Matching(v) :
                    /\ apColl' = (apColl \ {d}) \cup {[d EXCEPT !.a = u]}
                    /\ coRet' = [done |-> TRUE, op |-> "Upsert",
                                 info |-> UpsertInfo(UpdateOneMatched(d, u)),
                                 err |-> NoErr, noMatch |-> FALSE,
                                 changed |-> IF d.a = u THEN 0 ELSE 1, created |-> 0]
                    /\ UNCHANGED apNextId
             ELSE /\ apNextId <= MaxIds
                  /\ apColl' = apColl \cup {[id |-> apNextId, a |-> u]}
                  /\ apNextId' = apNextId + 1
                  /\ coRet' = [done |-> TRUE, op |-> "Upsert",
                               info |-> UpsertInfo(UpdateOneUpserted(apNextId)),
                               err |-> NoErr, noMatch |-> TRUE, changed |-> 0,
                               created |-> apNextId]
    /\ ap' = ApNoCall
    /\ apRet' = ApNoRet
    /\ UNCHANGED apHist
    /\ UNCHANGED notApVars

\* The ChangeInfo RemoveAll builds from the driver's DeletedCount.
RemoveAllInfo(deleted) ==
    [EmptyInfo EXCEPT !.removed = deleted, !.matched = deleted]

\* ModernColl.RemoveAll: DeleteMany.
RemoveAllRun(v) ==
    /\ ap.pc = "idle"
    /\ apColl' = apColl \ Matching(v)
    /\ coRet' = [done |-> TRUE, op |-> "RemoveAll",
                 info |-> RemoveAllInfo(Cardinality(Matching(v))), err |-> NoErr,
                 noMatch |-> Matching(v) = {}, changed |-> Cardinality(Matching(v)),
                 created |-> 0]
    /\ ap' = ApNoCall
    /\ apRet' = ApNoRet
    /\ UNCHANGED <<apNextId, apHist>>
    /\ UNCHANGED notApVars

\* The ChangeInfo UpdateAll builds from the driver's UpdateResult.
UpdateAllInfo(result) ==
    [EmptyInfo EXCEPT !.updated = result.modified, !.matched = result.matched]

\* ModernColl.UpdateAll: UpdateMany.
UpdateAllRun(v, update) ==
    /\ ap.pc = "idle"
    /\ LET u == SetValue(IssuedUpdate(update))
           modified == Cardinality({d \in Matching(v) : d.a # u})
       IN /\ apColl' = (apColl \ Matching(v)) \cup {[d EXCEPT !.a = u] : d \in Matching(v)}
          /\ coRet' = [done |-> TRUE, op |-> "UpdateAll",
                       info |-> UpdateAllInfo([matched |-> Cardinality(Matching(v)),
                                               modified |-> modified]),
                       err |-> NoErr, noMatch |-> Matching(v) = {},
                       changed |-> modified, created |-> 0]
    /\ ap' = ApNoCall
    /\ apRet' = ApNoRet
    /\ UNCHANGED <<apNextId, apHist>>
    /\ UNCHANGED notApVars

ApIdle ==
    /\ apColl = {}
    /\ apNextId = 1
    /\ ap = ApNoCall
    /\ apRet = ApNoRet
    /\ apHist = ApNoHist
    /\ coRet = CoNoRet

\* ========================================================================
\* Bulk batches: ModernBulk (unnamed/part_000) over the driver's BulkWrite
\* ========================================================================
MaxOps == 3         \* operations appended to one batch
MaxRuns == 2        \* Run calls on one batch

\* The one document key the batches work on, and the values of its field.
BulkId == 1
BulkOldVal == 1
BulkNewVal == 2

DupKeyCode == 11000

\* The update documents passed to Update, UpdateAll and Upsert.
BulkUpdates == {PlainUpdate(BulkNewVal), SetUpdate(BulkNewVal)}

\* A queued write model. upd is the update document as it was queued.
BulkOp(kind, upd) == [kind |-> kind, sel |-> BulkId, upd |-> upd]

\* Update, UpdateAll and Upsert queue the converted update document as it
\* is: wrapInSetOperator is not called.
QueuedUpdate(update) == convertMGOToOfficial(update)

\* The command a write model is sent with; consecutive models of one
\* command form one batch of an ordered BulkWrite.
CommandOf(op) ==
    CASE op.kind = "insert" -> "insert"
      [] op.kind \in {"updateOne", "upsert"} -> "updateOne"
      [] op.kind = "updateMany" -> "updateMany"
      [] op.kind = "deleteOne" -> "deleteOne"
      [] OTHER -> "deleteMany"

IsUpdateOp(op) == op.kind \in {"updateOne", "upsert", "updateMany"}

\* The driver accepts an update model only if the first key of its update
\* document begins with "$".
DollarFirstKey(upd) == Len(upd.kv) >= 1 /\ HasDollarPrefix(upd.kv[1].k)

\* The last index of the batch that begins at index i.
RECURSIVE BatchEnd(_, _)
BatchEnd(ops, i) ==
    IF i < Len(ops) /\ CommandOf(ops[i + 1]) = CommandOf(ops[i])
       THEN BatchEnd(ops, i + 1)
       ELSE i

\* The driver builds every update of a batch before it sends the batch.
BatchValid(ops, i) ==
    \A j \in i..BatchEnd(ops, i) : IsUpdateOp(ops[j]) => DollarFirstKey(ops[j].upd)

NoCounts == [matched |-> 0, modified |-> 0, upserted |-> 0, deleted |-> 0, inserted |-> 0]

\* The value an accepted update document sets.
BulkSetValue(upd) == upd.kv[1].v.kv[1].v.n

\* One write model applied by the server: the collection afterwards, the
\* counts added, and whether it failed with a write error.
ApplyOp(op, coll) ==
    LET hits == {d \in coll : d.id = op.sel}
    IN CASE op.kind = "insert" ->
              IF hits # {}
                 THEN [coll |-> coll, c |-> NoCounts, failed |-> TRUE]
                 ELSE [coll |-> coll \cup {[id |-> op.sel, a |-> BulkOldVal]},
                       c |-> [NoCounts EXCEPT !.inserted = 1], failed |-> FALSE]
         [] IsUpdateOp(op) ->
              LET u == BulkSetValue(op.upd)
              IN IF hits # {}
                    THEN [coll |-> (coll \ hits) \cup {[d EXCEPT !.a = u] : d \in hits},
                          c |-> [NoCounts EXCEPT
                                   !.matched = Cardinality(hits),
                                   !.modified = Cardinality({d \in hits : d.a # u})],
                          failed |-> FALSE]
                    ELSE IF op.kind = "upsert"
                    THEN [coll |-> coll \cup {[id |-> op.sel, a |-> u]},
                          c |-> [NoCounts EXCEPT !.upserted = 1], failed |-> FALSE]
                    ELSE [coll |-> coll, c |-> NoCounts, failed |-> FALSE]
         [] OTHER ->
              [coll |-> coll \ hits,
               c |-> [NoCounts EXCEPT !.deleted = Cardinality(hits)],
               failed |-> FALSE]

AddCounts(x, y) ==
    [matched |-> x.matched + y.matched, modified |-> x.modified + y.modified,
     upserted |-> x.upserted + y.upserted, deleted |-> x.deleted + y.deleted,
     inserted |-> x.inserted + y.inserted]

\* An ordered BulkWrite from index i on: the collection afterwards, the
\* BulkWriteResult, the write errors, whether the driver refused a batch,
\* and the last index that was sent.
RECURSIVE BulkWrite(_, _, _, _)
BulkWrite(ops, i, coll, counts) ==
    IF i > Len(ops)
       THEN [coll |-> coll, counts |-> counts, writeErrors |-> <<>>,
             refused |-> FALSE, sent |-> Len(ops)]
    ELSE IF (i = 1 \/ CommandOf(ops[i - 1]) # CommandOf(ops[i])) /\ ~BatchValid(ops, i)
       THEN [coll |-> coll, counts |-> counts, writeErrors |-> <<>>,
             refused |-> TRUE, sent |-> i - 1]
    ELSE LET r == ApplyOp(ops[i], coll)
         IN IF r.failed
               THEN [coll |-> coll, counts |-> counts,
                     writeErrors |-> <<[index |-> i - 1, code |-> DupKeyCode]>>,
                     refused |-> FALSE, sent |-> BatchEnd(ops, i)]
               ELSE BulkWrite(ops, i + 1, r.coll, AddCounts(counts, r.c))

\* ---- results ----
EmptyBulkResult == [matched |-> 0, modified |-> 0]

\* Mutant of convertBulkResult: only the update counts are reported.
convertBulkResultUpdatesOnly(result) ==
    [matched |-> result.matched, modified |-> result.modified]

\* ModernBulk.convertBulkResult
convertBulkResult(result) ==
    [matched |-> result.matched + result.deleted,
     modified |-> result.modified + result.deleted + result.upserted]

\* The error cases convertBulkError builds from the write errors and the
\* write-concern error of a BulkWriteException.
ErrorCases(exc) ==
    [j \in 1..Len(exc.writeErrors) |->
        [index |-> exc.writeErrors[j].index, code |-> exc.writeErrors[j].code,
         message |-> "write error"]]
    \o (IF exc.writeConcernError
           THEN <<[index |-> -1, code |-> exc.wcCode, message |-> "write concern"]>>
           ELSE <<>>)

CatchAllCase == [index |-> -1, code |-> 0, message |-> "exception message"]

\* Mutant of convertBulkError: no catch-all case.
convertBulkErrorNoCatchAll(exc) == ErrorCases(exc)

\* ModernBulk.convertBulkError: the cases of the returned BulkError.
convertBulkError(exc) ==
    IF Len(ErrorCases(exc)) > 0 THEN ErrorCases(exc) ELSE <<CatchAllCase>>

\* ---- the batch ----
MaxWriteErrs == 2   \* write errors in one BulkWriteException

WcCode == 64
BadValueCode == 121

BkNoRet ==
    [done |-> FALSE, nilResult |-> FALSE, result |-> EmptyBulkResult,
     err |-> NoErr, ecases |-> <<>>, counts |-> NoCounts]
BkNoExc == [writeErrors |-> <<>>, writeConcernError |-> FALSE, wcCode |-> 0]

\* ModernColl.Bulk: an empty, ordered batch.
NewBulk == [ops |-> <<>>, runs |-> 0]

\* b.operations = append(b.operations, model)
Queued(op) == [bk EXCEPT !.ops = Append(@, op)]

\* ModernBulk.Insert
BulkInsert ==
    /\ Len(bk.ops) < MaxOps
    /\ bk' = Queued(BulkOp("insert", Nil))
    /\ bkHist' = [bkHist EXCEPT !.submits = Append(@, 0)]
    /\ UNCHANGED <<bkColl, bkRet, bx>>
    /\ UNCHANGED notBkVars

\* ModernBulk.Update
BulkUpdate ==
    \E u \in BulkUpdates :
       /\ Len(bk.ops) < MaxOps
       /\ bk' = Queued(BulkOp("updateOne", QueuedUpdate(u)))
       /\ bkHist' = [bkHist EXCEPT !.submits = Append(@, 0)]
       /\ UNCHANGED <<bkColl, bkRet, bx>>
       /\ UNCHANGED notBkVars

\* ModernBulk.UpdateAll
BulkUpdateAll ==
    \E u \in BulkUpdates :
       /\ Len(bk.ops) < MaxOps
       /\ bk' = Queued(BulkOp("updateMany", QueuedUpdate(u)))
       /\ bkHist' = [bkHist EXCEPT !.submits = Append(@, 0)]
       /\ UNCHANGED <<bkColl, bkRet, bx>>
       /\ UNCHANGED notBkVars

\* ModernBulk.Upsert
BulkUpsert ==
    \E u \in BulkUpdates :
       /\ Len(bk.ops) < MaxOps
       /\ bk' = Queued(BulkOp("upsert", QueuedUpdate(u)))
       /\ bkHist' = [bkHist EXCEPT !.submits = Append(@, 0)]
       /\ UNCHANGED <<bkColl, bkRet, bx>>
       /\ UNCHANGED notBkVars

\* ModernBulk.Remove
BulkRemove ==
    /\ Len(bk.ops) < MaxOps
    /\ bk' = Queued(BulkOp("deleteOne", Nil))
    /\ bkHist' = [bkHist EXCEPT !.submits = Append(@, 0)]
    /\ UNCHANGED <<bkColl, bkRet, bx>>
    /\ UNCHANGED notBkVars

\* ModernBulk.RemoveAll
BulkRemoveAll ==
    /\ Len(bk.ops) < MaxOps
    /\ bk' = Queued(BulkOp("deleteMany", Nil))
    /\ bkHist' = [bkHist EXCEPT !.submits = Append(@, 0)]
    /\ UNCHANGED <<bkColl, bkRet, bx>>
    /\ UNCHANGED notBkVars

\* ModernBulk.Run
BulkRun ==
    /\ bk.runs < MaxRuns
    /\ bk' = [bk EXCEPT !.runs = @ + 1]
    /\ IF Len(bk.ops) = 0
          THEN /\ bkRet' = [BkNoRet EXCEPT !.done = TRUE]
               /\ UNCHANGED <<bkColl, bkHist>>
          ELSE LET w == BulkWrite(bk.ops, 1, bkColl, NoCounts)
               IN /\ bkColl' = w.coll
                  /\ bkHist' = [bkHist EXCEPT
                        !.before = bkColl,
                        !.submits = [j \in 1..Len(bk.ops) |->
                                        IF j <= w.sent THEN @[j] + 1 ELSE @[j]]]
                  /\ bkRet' =
                       IF w.refused
                          THEN [BkNoRet EXCEPT !.done = TRUE, !.nilResult = TRUE,
                                               !.err = "command", !.counts = w.counts]
                       ELSE IF w.writeErrors # <<>>
                          THEN [done |-> TRUE, nilResult |-> FALSE,
                                result |-> convertBulkResult(w.counts),
                                err |-> "BulkError",
                                ecases |-> convertBulkError(
                                    [BkNoExc EXCEPT !.writeErrors = w.writeErrors]),
                                counts |-> w.counts]
                       ELSE [BkNoRet EXCEPT !.done = TRUE,
                                            !.result = convertBulkResult(w.counts),
                                            !.counts = w.counts]
    /\ UNCHANGED bx
    /\ UNCHANGED notBkVars

\* The partial-failure exceptions a BulkWrite can report.
WriteErrs == [index : 0..(MaxOps - 1), code : {DupKeyCode, BadValueCode}]
BulkExceptions ==
    {[writeErrors |-> w, writeConcernError |-> c, wcCode |-> IF c THEN WcCode ELSE 0] :
        w \in UNION {[1..n -> WriteErrs] : n \in 0..MaxWriteErrs}, c \in BOOLEAN}

\* Run on a BulkWriteException: convertBulkError builds the BulkError.
BulkRunFails ==
    /\ ~bx.done
    /\ bx' = [bx EXCEPT !.done = TRUE, !.ecases = convertBulkError(bx.exc)]
    /\ UNCHANGED <<bk, bkColl, bkRet, bkHist>>
    /\ UNCHANGED notBkVars

BxIdle == bx = [exc |-> BkNoExc, done |-> FALSE, ecases |-> <<>>]

BkIdle ==
    /\ bk = NewBulk
    /\ bkColl = {}
    /\ bkRet = BkNoRet
    /\ bkHist = [submits |-> <<>>, before |-> {}]
    /\ BxIdle

\* ========================================================================
\* The converters applied to documents
\* ========================================================================
MaxDepth == 2       \* containers around a value

K_b == <<"b">>

\* Identifiers: one of 12 distinct bytes and one that is too short.
IdA == [j \in 1..ObjectIdLen |-> j]
ShortId == <<1, 2>>

\* Timestamps: on a millisecond and between two.
Times == {NsPerMs, NsPerMs + 1}

\* Legacy values that hold no other value.
LegacyAtoms ==
    {IntV(1), ObjectId(IdA), ObjectId(ShortId)}
    \cup {Time(n) : n \in Times}
    \cup {Arr("ids", <<ObjectId(IdA)>>),
          Arr("ids", <<ObjectId(ShortId), ObjectId(IdA)>>)}

\* A legacy value put into one more container.
LegacyWraps(x) ==
    {Doc("M", <<[k |-> K_a, v |-> x]>>),
     Doc("map", <<[k |-> K_a, v |-> x]>>),
     Doc("D", <<[k |-> K_a, v |-> x], [k |-> K_b, v |-> IntV(1)]>>),
     Doc("D", <<[k |-> K_b, v |-> IntV(1)], [k |-> K_a, v |-> x]>>),
     Arr("A", <<IntV(1), x>>)}
    \cup (IF x.t = "M" THEN {Arr("sliceM", <<x>>)} ELSE {})

RECURSIVE LegacyDocs(_)
LegacyDocs(depth) ==
    IF depth = 0 THEN LegacyAtoms
    ELSE LegacyDocs(depth - 1)
         \cup UNION {LegacyWraps(x) : x \in LegacyDocs(depth - 1)}

\* The values the driver decodes from the server.
ModernAtoms == {IntV(1), [t |-> "pOid", b |-> IdA], [t |-> "pDT", ms |-> 1]}

ModernWraps(x) ==
    {Doc("oM", <<[k |-> K_a, v |-> x]>>),
     Doc("oD", <<[k |-> K_a, v |-> x], [k |-> K_b, v |-> IntV(1)]>>),
     Doc("oD", <<[k |-> K_b, v |-> IntV(1)], [k |-> K_a, v |-> x]>>),
     Arr("A", <<x>>),
     Arr("pA", <<x>>)}

RECURSIVE ModernDocs(_)
ModernDocs(depth) ==
    IF depth = 0 THEN ModernAtoms
    ELSE ModernDocs(depth - 1)
         \cup UNION {ModernWraps(x) : x \in ModernDocs(depth - 1)}

CvNew(dir, src) ==
    [dir |-> dir, src |-> src, out |-> Nil, back |-> Nil, stage |-> "new"]

\* A legacy value on its way to the driver.
ConvertOutbound ==
    /\ cv.dir = "out" /\ cv.stage = "new"
    /\ cv' = [cv EXCEPT !.out = convertMGOToOfficial(cv.src), !.stage = "out"]
    /\ UNCHANGED notCvVars

\* The converted value read back.
ConvertBack ==
    /\ cv.dir = "out" /\ cv.stage = "out"
    /\ cv' = [cv EXCEPT !.back = convertOfficialToMGO(cv.out), !.stage = "back"]
    /\ UNCHANGED notCvVars

\* A decoded document on its way to the caller.
ConvertInbound ==
    /\ cv.dir = "in" /\ cv.stage = "new"
    /\ cv' = [cv EXCEPT !.out = convertOfficialToMGO(cv.src), !.stage = "in"]
    /\ UNCHANGED notCvVars

CvIdle == cv = CvNew("none", Nil)

\* ========================================================================
\* Decoding a returned document into the caller's destination
\* ========================================================================
\* A destination is a pointer to a struct with one field tagged bson:"a"
\* of type f, a pointer to a bson.M, a pointer to an int ("scalar"), or a
\* pointer to a slice of elements e.
StrV == [t |-> "str", s |-> "x"]
RuneStr == [t |-> "str", s |-> "rune"]
Unset == [t |-> "unset"]

FieldTypes == {"int", "string", "struct", "M", "timeSlice"}
StructDst(f) == [k |-> "struct", f |-> f]
MapDst == [k |-> "M"]
ScalarDst == [k |-> "scalar"]
SliceDst(e) == [k |-> "slice", e |-> e]
ElemDsts == {StructDst(f) : f \in FieldTypes} \cup {MapDst}
Destinations == ElemDsts \cup {ScalarDst} \cup {SliceDst(e) : e \in ElemDsts}

\* The values of the field "a" in the documents the server returns.
FieldValues ==
    {IntV(1), StrV, Doc("M", <<[k |-> K_b, v |-> IntV(1)]>>),
     Arr("A", <<Time(NsPerMs), IntV(1)>>),
     Arr("A", <<Time(NsPerMs), StrV>>)}
DecodeDocs ==
    {Doc("M", <<[k |-> K_a, v |-> v]>>) : v \in FieldValues} \cup {Doc("M", <<>>)}
GoodDoc == Doc("M", <<[k |-> K_a, v |-> IntV(1)]>>)
DecodeBatches == {<<d>> : d \in DecodeDocs} \cup {<<GoodDoc, d>> : d \in DecodeDocs}

\* The elements of a []time.Time field: an item that is a timestamp or a
\* number of milliseconds is appended, any other item is left out.
TimeItems(items) ==
    LET kept == SelectSeq(items, LAMBDA x : x.t \in {"time", "int"})
    IN [j \in 1..Len(kept) |->
          IF kept[j].t = "int" THEN Time(kept[j].n * NsPerMs) ELSE kept[j]]

\* setValue.Type().ConvertibleTo(fieldValue.Type())
ConvertibleTo(vt, ft) ==
    \/ vt = "int" /\ ft \in {"int", "string"}
    \/ vt = "str" /\ ft = "string"
    \/ vt = "M" /\ ft = "M"

\* One field of the destination struct: lines 623-690. A value that cannot
\* be converted to the field's type leaves the field as it was.
FieldSet(v, ft) ==
    IF ft = "timeSlice" /\ v.t = "A" THEN Arr("times", TimeItems(v.el))
    ELSE IF ConvertibleTo(v.t, ft)
       THEN IF v.t = "int" /\ ft = "string" THEN RuneStr ELSE v
    ELSE Unset

HasA(doc) == Len(doc.kv) >= 1 /\ doc.kv[1].k = K_a

\* The struct path of mapStructToInterface, lines 592-694: it returns nil
\* whatever happened to the fields.
StructDecode(doc, dst) ==
    [err |-> NoErr,
     out |-> [k |-> "struct",
              a |-> IF HasA(doc) THEN FieldSet(doc.kv[1].v, dst.f) ELSE Unset]]

\* bson.Marshal(src) and bson.Unmarshal(data, dst), lines 698-702.
GenericDecode(src, dst) ==
    IF src.t = "M" /\ dst.k = "M" THEN [err |-> NoErr, out |-> src]
    ELSE [err |-> DecodeErr, out |-> Unset]

RECURSIVE mapStructToInterface(_, _)

\* convertSliceWithReflect
convertSliceWithReflect(srcSlice, dst) ==
    IF dst.k # "slice" THEN [err |-> ErrNotFound, out |-> Unset]
    ELSE LET each == [j \in 1..Len(srcSlice.el) |->
                         mapStructToInterface(srcSlice.el[j], dst.e)]
         IN IF \E j \in 1..Len(each) : each[j].err # NoErr
               THEN [err |-> each[CHOOSE j \in 1..Len(each) :
                                     /\ each[j].err # NoErr
                                     /\ \A i \in 1..(j - 1) : each[i].err = NoErr].err,
                     out |-> Unset]
               ELSE [err |-> NoErr,
                     out |-> [k |-> "slice",
                              el |-> [j \in 1..Len(each) |-> each[j].out]]]

\* mapStructToInterface
mapStructToInterface(src, dst) ==
    IF src.t = "nil" THEN [err |-> ErrNotFound, out |-> Unset]
    ELSE IF src.t = "A" THEN convertSliceWithReflect(src, dst)
    ELSE IF src.t = "M" /\ dst.k = "struct" THEN StructDecode(src, dst)
    ELSE GenericDecode(src, dst)

DcNew(docs, dst) ==
    [op |-> "none", src |-> docs, dst |-> dst, out |-> Unset, err |-> NoErr]

DecodeInto(op, src) ==
    LET r == mapStructToInterface(src, dc.dst)
    IN [dc EXCEPT !.op = op, !.out = r.out, !.err = r.err]

\* ModernQ.One: the returned document is decoded into result.
QueryOne ==
    /\ dc.op = "none"
    /\ dc' = DecodeInto("One", Head(dc.src))
    /\ UNCHANGED notDcVars

\* ModernIt.Next
IterNext ==
    /\ dc.op = "none"
    /\ dc' = DecodeInto("Next", Head(dc.src))
    /\ UNCHANGED notDcVars

\* ModernIt.All: every document is read into a bson.M and the list is
\* decoded into result.
IterAll ==
    /\ dc.op = "none"
    /\ dc' = DecodeInto("All", Arr("A", dc.src))
    /\ UNCHANGED notDcVars

\* ModernQ.Apply with a result destination.
QueryApply ==
    /\ dc.op = "none"
    /\ dc' = DecodeInto("Apply", Head(dc.src))
    /\ UNCHANGED notDcVars

\* ModernColl.Run
CollRun ==
    /\ dc.op = "none"
    /\ dc' = DecodeInto("Run", Head(dc.src))
    /\ UNCHANGED notDcVars

DcIdle == dc = DcNew(<<>>, MapDst)

\* ========================================================================
\* ModernGridFile.Write, one iteration of its loop at a time
\* ========================================================================
\* The values SetChunkSize accepts are all of int: negative, zero and
\* positive ones.
MinChunkSize == 0 - 1
ChunkSizes == MinChunkSize..ChunkSizeDefault

\* The chunks a Write may append before the model stops following it.
ChunkCap == MaxLen + MaxBuf + 2

\* The fields of the handle Write works on, after Create.
WrCreated ==
    [pc |-> "idle", chunkSize |-> ChunkSizeDefault, chunks |-> <<>>,
     chunkIndex |-> 0, length |-> 0, rem |-> <<>>, data |-> 0, before |-> 0]

\* ModernGridFile.SetChunkSize between two Writes.
WriteSetChunkSize(size) ==
    /\ wr.pc # "loop"
    /\ wr' = [wr EXCEPT !.chunkSize = size]
    /\ UNCHANGED notWrVars

\* Write up to its loop.
WriteCall(buf) ==
    /\ wr.pc # "loop"
    /\ wr.length + Len(buf) <= MaxLen
    /\ wr' = [wr EXCEPT !.pc = "loop", !.rem = buf, !.data = Len(buf),
                        !.before = Len(wr.chunks)]
    /\ UNCHANGED notWrVars

\* The loop test of Write has failed: Write returns.
WriteReturn ==
    /\ wr.pc = "loop"
    /\ wr.rem = <<>>
    /\ wr' = [wr EXCEPT !.pc = "done"]
    /\ UNCHANGED notWrVars

\* One iteration of the loop of Write.
WriteIteration ==
    /\ wr.pc = "loop"
    /\ wr.rem # <<>>
    /\ wr.chunkIndex >= Len(wr.chunks) => Len(wr.chunks) < ChunkCap
    /\ LET f1 == IF wr.chunkIndex >= Len(wr.chunks)
                    THEN [wr EXCEPT !.chunks = Append(@, <<>>)]
                    ELSE wr
           cur == f1.chunks[f1.chunkIndex + 1]
           space == spaceInChunk(f1, cur)
       IN IF space <= 0
             THEN wr' = [f1 EXCEPT !.chunkIndex = @ + 1]
             ELSE LET toWrite == Min(Len(wr.rem), space)
                      f2 == [f1 EXCEPT
                               !.chunks[f1.chunkIndex + 1] =
                                   cur \o SubSeq(wr.rem, 1, toWrite),
                               !.length = @ + toWrite,
                               !.rem = SubSeq(wr.rem, toWrite + 1, Len(wr.rem))]
                  IN wr' = IF Len(f2.chunks[f2.chunkIndex + 1]) >= f2.chunkSize
                              THEN [f2 EXCEPT !.chunkIndex = @ + 1]
                              ELSE f2
    /\ UNCHANGED notWrVars

WrIdle == wr = WrCreated

\* ========================================================================
\* Server round trips and the contexts they wait under
\* ========================================================================
MaxWait == 3        \* seconds a round trip without a deadline is followed

\* The timeouts of context.WithTimeout, in seconds.
TenSeconds == 10
ThirtySeconds == 30

\* context.Background(): no deadline and nothing to cancel.
NoDeadline == 0

DeadlineExceeded == "context deadline exceeded"

\* No call has been made and no cursor is open.
RtNew ==
    [op |-> "none", pc |-> "idle", timeout |-> NoDeadline, elapsed |-> 0,
     released |-> FALSE, err |-> NoErr, cursor |-> "none", itCtx |-> NoDeadline]

\* A call that has sent its request under a context with this timeout.
Waiting(op, timeout) ==
    [rt EXCEPT !.op = op, !.pc = "waiting", !.timeout = timeout,
               !.elapsed = 0, !.released = FALSE, !.err = NoErr]

\* ModernQ.One
CallOne ==
    /\ rt.pc # "waiting"
    /\ rt' = Waiting("One", TenSeconds)
    /\ UNCHANGED notRtVars

\* ModernQ.Count
CallCount ==
    /\ rt.pc # "waiting"
    /\ rt' = Waiting("Count", TenSeconds)
    /\ UNCHANGED notRtVars

\* ModernQ.Apply
CallApply ==
    /\ rt.pc # "waiting"
    /\ rt' = Waiting("Apply", TenSeconds)
    /\ UNCHANGED notRtVars

\* ModernColl.EnsureIndex
CallEnsureIndex ==
    /\ rt.pc # "waiting"
    /\ rt' = Waiting("EnsureIndex", ThirtySeconds)
    /\ UNCHANGED notRtVars

\* ModernGridFile.saveFile
CallSaveFile ==
    /\ rt.pc # "waiting"
    /\ rt' = Waiting("saveFile", ThirtySeconds)
    /\ UNCHANGED notRtVars

\* ModernQ.Iter: Find runs under context.Background(), which the iterator
\* keeps as it.ctx.
CallQueryIter ==
    /\ rt.pc # "waiting"
    /\ rt.cursor # "open"
    /\ rt' = [Waiting("Iter", NoDeadline) EXCEPT !.itCtx = NoDeadline,
                                                 !.cursor = "opening"]
    /\ UNCHANGED notRtVars

\* ModernPipe.Iter: Aggregate runs under context.Background() likewise.
CallPipeIter ==
    /\ rt.pc # "waiting"
    /\ rt.cursor # "open"
    /\ rt' = [Waiting("PipeIter", NoDeadline) EXCEPT !.itCtx = NoDeadline,
                                                     !.cursor = "opening"]
    /\ UNCHANGED notRtVars

\* ModernIt.Next: cursor.Next(it.ctx)
CallNext ==
    /\ rt.pc # "waiting"
    /\ rt.cursor = "open"
    /\ rt' = Waiting("Next", rt.itCtx)
    /\ UNCHANGED notRtVars

\* ModernIt.Close: cursor.Close(it.ctx)
CallClose ==
    /\ rt.pc # "waiting"
    /\ rt.cursor = "open"
    /\ rt' = [Waiting("Close", rt.itCtx) EXCEPT !.cursor = "closing"]
    /\ UNCHANGED notRtVars

\* The state of the cursor once the call on it has returned.
CursorAfter(c) ==
    CASE c = "opening" -> "open"
      [] c = "closing" -> "closed"
      [] OTHER -> c

\* The server answers; the deferred cancel of a context made by
\* WithTimeout releases it.
ServerAnswers ==
    /\ rt.pc = "waiting"
    /\ rt' = [rt EXCEPT !.pc = "returned", !.cursor = CursorAfter(@),
                        !.released = rt.timeout # NoDeadline]
    /\ UNCHANGED notRtVars

\* A second passes with no answer from the server.
SecondPasses ==
    /\ rt.pc = "waiting"
    /\ rt.elapsed < (IF rt.timeout = NoDeadline THEN MaxWait ELSE rt.timeout)
    /\ rt' = [rt EXCEPT !.elapsed = @ + 1]
    /\ UNCHANGED notRtVars

\* The deadline of the context passes: the driver returns the error.
DeadlineExpires ==
    /\ rt.pc = "waiting"
    /\ rt.timeout # NoDeadline
    /\ rt.elapsed = rt.timeout
    /\ rt' = [rt EXCEPT !.pc = "returned", !.err = DeadlineExceeded,
                        !.cursor = CursorAfter(@), !.released = TRUE]
    /\ UNCHANGED notRtVars

RtIdle == rt = RtNew

\* ========================================================================
\* Concurrent callers and the package variable DebugConversion
\* ========================================================================
MaxCallers == 2     \* goroutines that call into the package

Callers == 1..MaxCallers

\* var DebugConversion = false, and every caller outside the package.
DgNew ==
    [flag |-> FALSE, pc |-> [c \in Callers |-> "idle"],
     saw |-> [c \in Callers |-> "none"]]

\* The access to DebugConversion that is the next step of caller c.
NextAccess(c) ==
    CASE dg.pc[c] \in {"set", "reset"} -> "write"
      [] dg.pc[c] \in {"check", "checkResult", "readCheck"} -> "read"
      [] OTHER -> "none"

\* The values a read by caller c can return: the variable is not
\* synchronised, so a read that runs together with a write of another
\* caller is a data race and can return either value.
ReadValues(c) ==
    IF \E d \in Callers \ {c} : NextAccess(d) = "write"
       THEN BOOLEAN
       ELSE {dg.flag}

\* ConvertMGOToOfficialDebug is called.
DebugCall(c) ==
    /\ dg.pc[c] = "idle"
    /\ dg' = [dg EXCEPT !.pc[c] = "set", !.saw[c] = "none"]
    /\ UNCHANGED notDgVars

\* "DebugConversion = true"
DebugSet(c) ==
    /\ dg.pc[c] = "set"
    /\ dg' = [dg EXCEPT !.flag = TRUE, !.pc[c] = "check"]
    /\ UNCHANGED notDgVars

\* convertMGOToOfficialWithDebug: "if DebugConversion" before the
\* conversion.
DebugCheck(c) ==
    /\ dg.pc[c] = "check"
    /\ \E v \in ReadValues(c) :
          dg' = [dg EXCEPT !.saw[c] = IF v THEN "true" ELSE "false",
                           !.pc[c] = "checkResult"]
    /\ UNCHANGED notDgVars

\* convertMGOToOfficialWithDebug: "if DebugConversion" after the
\* conversion.
DebugCheckResult(c) ==
    /\ dg.pc[c] = "checkResult"
    /\ \E v \in ReadValues(c) :
          dg' = [dg EXCEPT !.saw[c] = IF v THEN "true" ELSE "false",
                           !.pc[c] = "reset"]
    /\ UNCHANGED notDgVars

\* The deferred "DebugConversion = false"
DebugReset(c) ==
    /\ dg.pc[c] = "reset"
    /\ dg' = [dg EXCEPT !.flag = FALSE, !.pc[c] = "idle"]
    /\ UNCHANGED notDgVars

\* ModernGridFile.Read is called on a handle of the caller's own.
ReadCall(c) ==
    /\ dg.pc[c] = "idle"
    /\ dg' = [dg EXCEPT !.pc[c] = "readCheck", !.saw[c] = "none"]
    /\ UNCHANGED notDgVars

\* ModernGridFile.Read: "if DebugConversion"
ReadCheck(c) ==
    /\ dg.pc[c] = "readCheck"
    /\ \E v \in ReadValues(c) :
          dg' = [dg EXCEPT !.saw[c] = IF v THEN "true" ELSE "false",
                           !.pc[c] = "idle"]
    /\ UNCHANGED notDgVars

DgIdle == dg = DgNew

\* ========================================================================
\* Specifications, one per subsystem
\* ========================================================================
InitSession ==
    /\ sess = [h \in Handles |-> IF h = 1 THEN Dialed ELSE NoSession]
    /\ client = [connected |-> TRUE, disconnects |-> 0]
    /\ seLast = [op |-> "Dial", h |-> 1, ok |-> TRUE, closed |-> {}]
    /\ seClosed = {}
    /\ ItIdle /\ UpIdle /\ GfIdle /\ ApIdle /\ BkIdle /\ CvIdle /\ DcIdle /\ WrIdle /\ RtIdle /\ DgIdle

NextSession ==
    \/ \E h \in Handles : SessionCopy(h)
    \/ \E h \in Handles : SessionClone(h)
    \/ \E h \in Handles : SessionClose(h)
    \/ \E h \in Handles, mode \in Modes : SessionSetMode(h, mode)
    \/ \E h \in Handles : SessionPing(h)

SpecSession == InitSession /\ [][NextSession]_vars

InitUpdate == UpIdle /\ ItIdle /\ SeIdle /\ GfIdle /\ ApIdle /\ BkIdle /\ CvIdle /\ DcIdle /\ WrIdle /\ RtIdle /\ DgIdle

NextUpdate ==
    CollUpdate \/ CollUpdateId \/ CollUpdateAll \/ CollUpsert \/ QueryApplyIssue

InitItSpec == InitIt /\ UpIdle /\ SeIdle /\ GfIdle /\ ApIdle /\ BkIdle /\ CvIdle /\ DcIdle /\ WrIdle /\ RtIdle /\ DgIdle

SpecIt == InitItSpec /\ [][NextIt]_vars

SpecUpdate == InitUpdate /\ [][NextUpdate]_vars

GfInitWith(files, chunks) ==
    /\ gf = [h \in {"w", "r"} |-> NoHandle]
    /\ gfFiles = files
    /\ gfChunks = chunks
    /\ gfIndex = FALSE
    /\ gfLast = GfNoCall
    /\ gfHist = GfNoHist
    /\ ItIdle /\ UpIdle /\ SeIdle /\ ApIdle /\ BkIdle /\ CvIdle /\ DcIdle /\ WrIdle /\ RtIdle /\ DgIdle

\* A writer and a concurrent reader over an empty store.
InitGridFS == GfInitWith({}, {})

NextGridFS ==
    \/ GridFSCreate
    \/ \E size \in 1..ChunkSizeDefault : GridFileSetChunkSize(size)
    \/ \E buf \in BytesUpTo(MaxBuf) : GridFileWrite(buf)
    \/ \E h \in {"w", "r"} : GridFileClose(h)
    \/ \E h \in {"w", "r"} : GridFileSaveChunk(h)
    \/ \E h \in {"w", "r"} : GridFileSaveIndex(h)
    \/ GridFSOpen(FileName)
    \/ \E id \in {WriterId, ForeignId} : GridFSOpenId(id)
    \/ \E n \in 0..MaxBuf : GridFileRead(n)

SpecGridFS == InitGridFS /\ [][NextGridFS]_vars

\* A reader over files stored before.
InitGridRead == \E s \in StoredFiles : GfInitWith(s.files, s.chunks)

NextGridRead ==
    \/ GridFSOpen(FileName)
    \/ \E id \in {WriterId, ForeignId} : GridFSOpenId(id)
    \/ \E n \in 0..MaxBuf : GridFileRead(n)
    \/ GridFileClose("r")

SpecGridRead == InitGridRead /\ [][NextGridRead]_vars

\* A writer whose server calls can fail while Close saves the file.
InitGridFault == GfInitWith({}, {})

NextGridFault ==
    \/ GridFSCreate
    \/ \E size \in 1..ChunkSizeDefault : GridFileSetChunkSize(size)
    \/ \E buf \in BytesUpTo(MaxBuf) : GridFileWrite(buf)
    \/ GridFileClose("w")
    \/ GridFileSaveChunk("w")
    \/ GridFileSaveIndex("w")
    \/ GridFileSaveFault("w")
    \/ \E id \in {WriterId, ForeignId} : GridFSOpenId(id)

SpecGridFault == InitGridFault /\ [][NextGridFault]_vars

\* Apply over an empty collection, with writes of other clients.
InitApply == ApIdle /\ ItIdle /\ UpIdle /\ SeIdle /\ GfIdle /\ BkIdle /\ CvIdle /\ DcIdle /\ WrIdle /\ RtIdle /\ DgIdle

NextApply ==
    \/ \E v \in Vals : ApplyRemove(v)
    \/ \E v \in Vals, update \in ApplyUpdates, upsert \in BOOLEAN, returnNew \in BOOLEAN :
          ApplyStart(v, update, upsert, returnNew)
    \/ \E v \in Vals, update \in ApplyUpdates : UpsertRun(v, update)
    \/ \E v \in Vals : RemoveAllRun(v)
    \/ \E v \in Vals, update \in ApplyUpdates : UpdateAllRun(v, update)
    \/ ApplyFindOneAndUpdate
    \/ ApplyRequery
    \/ \E v \in Vals : ConcInsert(v)
    \/ ConcDelete

SpecApply == InitApply /\ [][NextApply]_vars

\* A batch built and run over a collection that holds the document or not.
InitBulk ==
    /\ bk = NewBulk
    /\ bkColl \in {{}, {[id |-> BulkId, a |-> BulkOldVal]}}
    /\ bkRet = BkNoRet
    /\ bkHist = [submits |-> <<>>, before |-> {}]
    /\ BxIdle
    /\ ItIdle /\ UpIdle /\ SeIdle /\ GfIdle /\ ApIdle /\ CvIdle /\ DcIdle /\ WrIdle /\ RtIdle /\ DgIdle

NextBulk ==
    \/ BulkInsert
    \/ BulkUpdate
    \/ BulkUpdateAll
    \/ BulkUpsert
    \/ BulkRemove
    \/ BulkRemoveAll
    \/ BulkRun

SpecBulk == InitBulk /\ [][NextBulk]_vars

\* convertBulkError over the exceptions a BulkWrite can report.
InitBulkError ==
    /\ bk = NewBulk
    /\ bkColl = {}
    /\ bkRet = BkNoRet
    /\ bkHist = [submits |-> <<>>, before |-> {}]
    /\ \E e \in BulkExceptions : bx = [exc |-> e, done |-> FALSE, ecases |-> <<>>]
    /\ ItIdle /\ UpIdle /\ SeIdle /\ GfIdle /\ ApIdle /\ CvIdle /\ DcIdle /\ WrIdle /\ RtIdle /\ DgIdle

NextBulkError == BulkRunFails

SpecBulkError == InitBulkError /\ [][NextBulkError]_vars

\* The converters over the legacy and the modern documents.
InitConvert ==
    /\ \/ \E d \in LegacyDocs(MaxDepth) : cv = CvNew("out", d)
       \/ \E d \in ModernDocs(MaxDepth) : cv = CvNew("in", d)
    /\ ItIdle /\ UpIdle /\ SeIdle /\ GfIdle /\ ApIdle /\ BkIdle /\ DcIdle /\ WrIdle /\ RtIdle /\ DgIdle

NextConvert ==
    \/ ConvertOutbound
    \/ ConvertBack
    \/ ConvertInbound

SpecConvert == InitConvert /\ [][NextConvert]_vars

\* The decoding operations over returned documents and destinations.
InitDecode ==
    /\ \E docs \in DecodeBatches, dst \in Destinations : dc = DcNew(docs, dst)
    /\ ItIdle /\ UpIdle /\ SeIdle /\ GfIdle /\ ApIdle /\ BkIdle /\ CvIdle /\ WrIdle /\ RtIdle /\ DgIdle

NextDecode ==
    \/ QueryOne
    \/ IterNext
    \/ IterAll
    \/ QueryApply
    \/ CollRun

SpecDecode == InitDecode /\ [][NextDecode]_vars

\* Write on a created file, with any chunk size SetChunkSize can set.
InitWrite ==
    /\ WrIdle
    /\ ItIdle /\ UpIdle /\ SeIdle /\ GfIdle /\ ApIdle /\ BkIdle /\ CvIdle /\ DcIdle /\ RtIdle /\ DgIdle

NextWrite ==
    \/ \E size \in ChunkSizes : WriteSetChunkSize(size)
    \/ \E buf \in BytesUpTo(MaxBuf) : WriteCall(buf)
    \/ WriteIteration
    \/ WriteReturn

SpecWrite == InitWrite /\ [][NextWrite]_vars

\* Round trips to a server that answers late or not at all.
InitRoundTrip ==
    /\ RtIdle
    /\ ItIdle /\ UpIdle /\ SeIdle /\ GfIdle /\ ApIdle /\ BkIdle /\ CvIdle /\ DcIdle /\ WrIdle /\ DgIdle

NextRoundTrip ==
    \/ CallOne
    \/ CallCount
    \/ CallApply
    \/ CallEnsureIndex
    \/ CallSaveFile
    \/ CallQueryIter
    \/ CallPipeIter
    \/ CallNext
    \/ CallClose
    \/ ServerAnswers
    \/ SecondPasses
    \/ DeadlineExpires

SpecRoundTrip == InitRoundTrip /\ [][NextRoundTrip]_vars

\* Callers on goroutines of their own, each with its own handles.
InitCallers ==
    /\ DgIdle
    /\ ItIdle /\ UpIdle /\ SeIdle /\ GfIdle /\ ApIdle /\ BkIdle /\ CvIdle /\ DcIdle /\ WrIdle /\ RtIdle

NextCallers ==
    \/ \E c \in Callers : DebugCall(c)
    \/ \E c \in Callers : DebugSet(c)
    \/ \E c \in Callers : DebugCheck(c)
    \/ \E c \in Callers : DebugCheckResult(c)
    \/ \E c \in Callers : DebugReset(c)
    \/ \E c \in Callers : ReadCall(c)
    \/ \E c \in Callers : ReadCheck(c)

SpecCallers == InitCallers /\ [][NextCallers]_vars

\* ========================================================================
\* Claims
\* ========================================================================

\* C1: once the cursor has recorded an error (from opening it, from the
\* driver while advancing, or from decoding), every later Next call returns
\* false and performs no server I/O.
C1_StickyError ==
    [][(itHist.everErr /\ ItNext) => (~itLast'.ret /\ ~itLast'.io)]_vars

\* C1 witness: a transport failure while advancing was recorded with
\* documents still on the server, and Next has been called again since.
C1_Witness ==
    /\ itHist.afterErr
    /\ itLast.call = "Next"
    /\ it.err = TransportErr
    /\ it.cursor = "live"
    /\ drv.server > 0

\* C2: a Next call on a cursor with no document left and no failure so far
\* or in this call returns false and leaves the error slot empty, and so
\* does every later one.
C2_DrainNoError ==
    [][(ItNext /\ it.cursor = "live" /\ drv.batch = 0 /\ drv.server = 0
              /\ ~itHist'.failed)
          => (~itLast'.ret /\ it'.err = NoErr /\ itHist'.drained)]_vars

\* C2 witness: every document was delivered, the cursor was drained without
\* a failure, and Next was called again after the end was reached.
C2_Witness ==
    /\ itHist.afterDrain
    /\ ~itHist.failed
    /\ itHist.delivered = MaxDocs
    /\ itLast.call = "Next"
    /\ ~itLast.ret
    /\ it.err = NoErr

\* C3: every Close returns the sticky error; an error recorded before Close
\* is kept, a close-time error becomes the sticky error exactly when none
\* was recorded, and a Close after a Close changes nothing.
C3_CloseSticky ==
    [][ItClose =>
          /\ itLast'.err = it'.err
          /\ it.err # NoErr => it'.err = it.err
          /\ it.err = NoErr => it'.err = itLast'.drvErr
          /\ itHist.closed => (it' = it /\ ~itLast'.io)]_vars

\* C3 witness: a cursor that recorded a decode error mid-iteration was
\* closed, the close itself failed, and the decode error is still the one
\* returned.
C3_Witness ==
    /\ itLast.call = "Close"
    /\ itLast.drvErr = CloseErr
    /\ it.err = DecodeErr
    /\ itLast.err = DecodeErr

\* The update document the auto-$set rule asks for: u itself when a
\* top-level key begins with "$", otherwise {$set: u}.
HasTopLevelOperator(u) == \E j \in 1..Len(u.kv) : HasDollarPrefix(u.kv[j].k)
ExpectedUpdate(u) ==
    convertMGOToOfficial(IF HasTopLevelOperator(u) THEN u
                         ELSE Doc("M", <<[k |-> K_set, v |-> u]>>))

\* C4: for every update document u passed to Update, UpdateId, UpdateAll,
\* Upsert or Apply, in any of the three representations, the write issued
\* is {$set: u} when u has no top-level "$" key and u unchanged otherwise.
C4_AutoSet ==
    (upCall.op # "none" /\ ~upCall.remove /\ IsDoc(upDoc))
        => upIssued = ExpectedUpdate(upDoc)

\* C5: closing a handle obtained by Copy or Clone, at any depth, leaves the
\* shared client as it was, so every handle stays usable; the client is
\* only ever disconnected by a Close on the dialed handle.
C5_CopyCloseKeepsClient ==
    [][/\ \A h \in Handles :
            (SessionClose(h) /\ sess[h].depth > 0) => client' = client
       /\ (client.connected /\ ~client'.connected)
            => \E h \in Handles : SessionClose(h) /\ sess[h].depth = 0]_vars

\* C5 witness: a copy of a copy and a first-level copy have been closed,
\* and a later Ping through the dialed handle succeeded.
C5_Witness ==
    /\ seLast.op = "Ping"
    /\ seLast.h = 1
    /\ seLast.ok
    /\ \E g \in seLast.closed : sess[g].depth = 2
    /\ \E g \in seLast.closed : sess[g].depth = 1

IsPrefix(p, q) == Len(p) <= Len(q) /\ SubSeq(q, 1, Len(p)) = p

\* The reader's handle came from Open by name after the writer's Close.
ReaderOnWritten == gf["r"].exists /\ gfHist.byName /\ gfHist.afterClose

\* C6 as stated, for any byte sequence written to a created file: after
\* Close has returned nil, Open by name succeeds on that file with the
\* original total length, and reading to end-of-stream returns exactly the
\* bytes written.
C6_RoundTripAnyBytes ==
    /\ [][(gfHist.closedOk /\ GridFSOpen(FileName)) => gfLast'.err = NoErr]_vars
    /\ [](ReaderOnWritten =>
            /\ gf["r"].id = WriterId
            /\ gf["r"].length = Len(gfHist.data)
            /\ IsPrefix(gfHist.out, gfHist.data)
            /\ (gfLast.op = "Read" /\ gfLast.err = ErrEOF)
                  => gfHist.out = gfHist.data)

\* C6 (amended): for any non-empty byte sequence written through Write
\* calls to a created file, after Close has returned nil, Open by name
\* succeeds on that file with the original total length, every Read with a
\* non-empty buffer before the end returns at least one byte, the bytes
\* read so far are a prefix of the bytes written, and at end-of-stream they
\* are exactly the bytes written.
C6_RoundTrip ==
    /\ [][(gfHist.closedOk /\ gfHist.data # <<>> /\ GridFSOpen(FileName))
            => gfLast'.err = NoErr]_vars
    /\ []((ReaderOnWritten /\ gfHist.data # <<>>) =>
            /\ gf["r"].id = WriterId
            /\ gf["r"].length = Len(gfHist.data)
            /\ IsPrefix(gfHist.out, gfHist.data)
            /\ (gfLast.op = "Read" /\ gfLast.err = ErrEOF)
                  => gfHist.out = gfHist.data)
    /\ [][\A n \in 1..MaxBuf :
            (GridFileRead(n) /\ ReaderOnWritten /\ ~gf["r"].closed
               /\ Len(gfHist.out) < Len(gfHist.data))
            => (gfLast'.err = NoErr /\ Len(gfLast'.out) >= 1)]_vars

\* A file of two chunks, written by two Write calls, read back to the end
\* by two Read calls after Open by name.
C6_Witness ==
    /\ ReaderOnWritten
    /\ Len(gf["w"].chunks) >= 2
    /\ gfHist.writes >= 2 /\ gfHist.reads >= 2
    /\ gfLast.op = "Read" /\ gfLast.err = ErrEOF
    /\ gfHist.out = gfHist.data

\* The length stored in the file document the reader's handle came from.
StoredLength == (CHOOSE d \in gfFiles : d.id = gf["r"].id).length

\* C7: on an open read-mode handle the bytes returned by Read never exceed
\* the stored length of the file, and once as many bytes as the stored
\* length have been returned every Read returns end-of-stream and no bytes.
C7_ReadWithinLength ==
    [][\A n \in 0..MaxBuf :
         (GridFileRead(n) /\ ~gf["r"].closed) =>
            /\ Len(gfHist'.out) <= StoredLength
            /\ (Len(gfHist.out) = StoredLength)
                  => (gfLast'.err = ErrEOF /\ gfLast'.out = <<>>)]_vars

\* The chunks hold more bytes than the stored length, all the bytes the
\* length accounts for were returned, and a further Read met end-of-stream.
C7_Witness ==
    /\ gf["r"].exists /\ gf["r"].loaded
    /\ Len(Flatten(gf["r"].chunks)) > StoredLength
    /\ StoredLength > 0
    /\ Len(gfHist.out) = StoredLength
    /\ gfLast.op = "Read" /\ gfLast.err = ErrEOF

\* C8: whenever Open or OpenId has succeeded for the file a writer
\* created, all the chunks of the file were stored at the time of the open.
C8_AtomicVisibility ==
    (gf["r"].exists /\ gf["r"].id = WriterId) => gfHist.openComplete

\* C9: a Close on the write-mode handle after a Close of it has returned
\* nil returns nil, issues no server write and changes neither the store
\* nor the handle.
C9_SecondCloseNoOp ==
    [][(GridFileClose("w") /\ gfHist.closedOk) =>
          /\ gfLast'.err = NoErr
          /\ ~gfLast'.wrote
          /\ UNCHANGED <<gf, gfFiles, gfChunks, gfIndex>>]_vars

\* The file was saved and a later Close on its handle returned nil
\* without a server write.
C9_Witness ==
    /\ gfHist.closedOk
    /\ Len(gf["w"].chunks) > 0
    /\ IdMatches(WriterId) # {}
    /\ gfLast = [op |-> "Close", h |-> "w", out |-> <<>>, err |-> NoErr,
                 wrote |-> FALSE]

\* C10: an Apply with Upsert=true and ReturnNew=false whose filter matched
\* no document, with no write of another client during the call, returns
\* no error and a ChangeInfo whose UpsertedId is the identifier of the
\* document the call created.
C10_UpsertReportsId ==
    (apRet.done /\ ap.upsert /\ ~ap.returnNew /\ ~ap.remove
       /\ apHist.noMatchAtStart /\ ~apHist.raced) =>
        /\ apRet.err = NoErr
        /\ apHist.created # 0
        /\ apRet.info.upsertedId = apHist.created

C13_BulkCountsUpdatesOnly ==
    (bkRet.done /\ bkRet.err = NoErr) =>
        /\ bkRet.result.matched = bkRet.counts.matched
        /\ bkRet.result.modified = bkRet.counts.modified

\* The batch as it would be sent if every update document without a
\* top-level "$" key were wrapped in $set.
SetSemantics(ops) ==
    [j \in 1..Len(ops) |->
        IF IsUpdateOp(ops[j]) /\ ~HasTopLevelOperator(ops[j].upd)
           THEN [ops[j] EXCEPT !.upd = Doc("oM", <<[k |-> K_set, v |-> ops[j].upd]>>)]
           ELSE ops[j]]
RunWithSetSemantics == BulkWrite(SetSemantics(bk.ops), 1, bkHist.before, NoCounts)

\* C14: the first Run of a batch leaves the collection, and returns the
\* error and the counts, that the batch gives when each plain update
\* document of Update, UpdateAll and Upsert is applied as {$set: document};
\* in particular a plain-document Upsert on a selector that matches nothing
\* succeeds and creates the document.
C14_BulkAutoSet ==
    (bkRet.done /\ bk.runs = 1 /\ Len(bk.ops) > 0) =>
        /\ bkColl = RunWithSetSemantics.coll
        /\ bkRet.err = IF RunWithSetSemantics.writeErrors # <<>>
                          THEN "BulkError" ELSE NoErr
        /\ bkRet.counts = RunWithSetSemantics.counts

\* What the claim gives for a BulkWriteException: one case per write error
\* with its index, then a case of index -1 for a write-concern error, and
\* a single case of index -1 when the exception has neither.
CaseIndexes(cases) == [j \in 1..Len(cases) |-> cases[j].index]
ExpectedIndexes(exc) ==
    IF Len(exc.writeErrors) = 0 /\ ~exc.writeConcernError
       THEN <<-1>>
       ELSE [j \in 1..Len(exc.writeErrors) |-> exc.writeErrors[j].index]
            \o (IF exc.writeConcernError THEN <<-1>> ELSE <<>>)

\* C15: the BulkError that Run returns for a BulkWriteException has one
\* case per write error, carrying that error's index and code, followed by
\* a case of index -1 when a write-concern error is present; when the
\* exception has neither, it has exactly one case, of index -1; it never
\* has zero cases. A Run that the server answered with a write error
\* returns such a BulkError as well.
C15_BulkErrorCases ==
    /\ bx.done =>
         /\ Len(bx.ecases) >= 1
         /\ CaseIndexes(bx.ecases) = ExpectedIndexes(bx.exc)
         /\ \A j \in 1..Len(bx.exc.writeErrors) :
               bx.ecases[j].code = bx.exc.writeErrors[j].code
    /\ (bkRet.done /\ bkRet.err = "BulkError") => Len(bkRet.ecases) >= 1

\* An exception with two write errors and a write-concern error has been
\* converted.
C15_Witness ==
    /\ bx.done
    /\ Len(bx.exc.writeErrors) = 2
    /\ bx.exc.writeErrors[1].index # bx.exc.writeErrors[2].index
    /\ bx.exc.writeConcernError
    /\ Len(bx.ecases) = 3
    /\ bx.ecases[3].index = -1

\* C16: every operation queued in a batch is submitted to the server at
\* most once, however often Run is called.
C16_RunOnce ==
    \A j \in 1..Len(bkHist.submits) : bkHist.submits[j] <= 1

IsPairs(x) == x.t \in {"M", "map", "D", "oM", "oD"}
IsArray(x) == x.t \in {"A", "sliceM", "ids", "pA"}

\* d with every timestamp cut to its millisecond.
RECURSIVE Truncated(_)
Truncated(x) ==
    IF IsPairs(x)
       THEN Doc(x.t, [j \in 1..Len(x.kv) |->
                        [k |-> x.kv[j].k, v |-> Truncated(x.kv[j].v)]])
    ELSE IF IsArray(x)
       THEN Arr(x.t, [j \in 1..Len(x.el) |-> Truncated(x.el[j])])
    ELSE IF x.t = "time" THEN Time((x.ns \div NsPerMs) * NsPerMs)
    ELSE x

\* d read with map[string]interface{} as bson.M and with []bson.M and
\* []bson.ObjectId as []interface{}.
RECURSIVE Generic(_)
Generic(x) ==
    IF x.t \in {"M", "map"}
       THEN Doc("M", [j \in 1..Len(x.kv) |->
                        [k |-> x.kv[j].k, v |-> Generic(x.kv[j].v)]])
    ELSE IF x.t = "D"
       THEN Doc("D", [j \in 1..Len(x.kv) |->
                        [k |-> x.kv[j].k, v |-> Generic(x.kv[j].v)]])
    ELSE IF IsArray(x)
       THEN Arr("A", [j \in 1..Len(x.el) |-> Generic(x.el[j])])
    ELSE x

RECURSIVE IdsOf(_)
IdsOf(x) ==
    IF x.t \in {"oid", "pOid"}
       THEN IF Len(x.b) = ObjectIdLen THEN <<x>> ELSE <<>>
    ELSE IF IsPairs(x) THEN Flatten([j \in 1..Len(x.kv) |-> IdsOf(x.kv[j].v)])
    ELSE IF IsArray(x) THEN Flatten([j \in 1..Len(x.el) |-> IdsOf(x.el[j])])
    ELSE <<>>
BytesOf(ids) == [j \in 1..Len(ids) |-> ids[j].b]

\* C18: every 12-byte identifier of a legacy value, standing alone, nested
\* in a map, an ordered pair list or an array, or an element of a
\* []bson.ObjectId, is a primitive.ObjectID of the same 12 bytes after
\* convertMGOToOfficial and a bson.ObjectId of the same 12 bytes after
\* convertOfficialToMGO of that.
C18_IdBytes ==
    /\ (cv.dir = "out" /\ cv.stage \in {"out", "back"}) =>
         /\ BytesOf(IdsOf(cv.out)) = BytesOf(IdsOf(cv.src))
         /\ \A j \in 1..Len(IdsOf(cv.out)) : IdsOf(cv.out)[j].t = "pOid"
    /\ (cv.dir = "out" /\ cv.stage = "back") => IdsOf(cv.back) = IdsOf(cv.src)

\* A []bson.ObjectId nested in a map has gone out and come back.
C18_Witness ==
    /\ cv.dir = "out" /\ cv.stage = "back"
    /\ cv.src = Doc("M", <<[k |-> K_a,
                            v |-> Arr("ids", <<ObjectId(ShortId), ObjectId(IdA)>>)]>>)
    /\ IdsOf(cv.out) = <<[t |-> "pOid", b |-> IdA]>>
    /\ IdsOf(cv.back) = <<ObjectId(IdA)>>

\* The keys of a value: for an ordered pair list its keys in order, for a
\* map its keys, for an array its elements, each with the keys below it.
RECURSIVE Shape(_)
Shape(x) ==
    IF x.t \in {"D", "oD"}
       THEN [c |-> "pairs", s |-> [j \in 1..Len(x.kv) |->
                                     [k |-> x.kv[j].k, v |-> Shape(x.kv[j].v)]]]
    ELSE IF IsPairs(x)
       THEN [c |-> "map", s |-> [j \in 1..Len(x.kv) |->
                                   [k |-> x.kv[j].k, v |-> Shape(x.kv[j].v)]]]
    ELSE IF IsArray(x)
       THEN [c |-> "array", s |-> [j \in 1..Len(x.el) |-> Shape(x.el[j])]]
    ELSE [c |-> "value", s |-> <<>>]

\* C19: convertMGOToOfficial and convertOfficialToMGO turn every ordered
\* pair list of their argument, at any depth, into an ordered pair list of
\* the same keys in the same order; no pair is dropped, duplicated or
\* moved.
C19_PairOrder ==
    /\ cv.stage \in {"out", "back", "in"} => Shape(cv.out) = Shape(cv.src)
    /\ cv.stage = "back" => Shape(cv.back) = Shape(cv.out)

\* An ordered pair list inside an ordered pair list has gone out and come
\* back with its keys as they were.
C19_Witness ==
    /\ cv.dir = "out" /\ cv.stage = "back"
    /\ cv.src = Doc("D", <<[k |-> K_b, v |-> IntV(1)],
                           [k |-> K_a,
                            v |-> Doc("D", <<[k |-> K_b, v |-> IntV(1)],
                                             [k |-> K_a, v |-> ObjectId(IdA)]>>)]>>)
    /\ cv.out.t = "oD" /\ cv.out.kv[2].v.t = "oD"
    /\ cv.out.kv[2].v.kv[1].k = K_b
    /\ cv.back = cv.src

\* The source value does not fit the type of the destination field.
FieldMismatch(v, ft) ==
    CASE ft = "int" -> v.t # "int"
      [] ft = "string" -> v.t # "str"
      [] ft \in {"struct", "M"} -> v.t # "M"
      [] OTHER -> v.t # "A" \/ \E j \in 1..Len(v.el) : v.el[j].t \notin {"time", "int"}

\* The document does not fit the destination.
DocMismatch(doc, dst) ==
    \/ dst.k \in {"scalar", "slice"}
    \/ dst.k = "struct" /\ HasA(doc) /\ FieldMismatch(doc.kv[1].v, dst.f)

DecodeMismatch ==
    IF dc.op = "All"
       THEN \/ dc.dst.k # "slice"
            \/ \E j \in 1..Len(dc.src) : DocMismatch(dc.src[j], dc.dst.e)
       ELSE DocMismatch(Head(dc.src), dc.dst)

\* C20: when One, Next, All, Apply or Run decodes a returned document
\* into a destination whose shape, or whose field's type, does not match
\* the source value, it returns an error; it never returns nil with the
\* mismatching destination or field left unpopulated.
C20_DecodeFailuresSurfaced ==
    (dc.op # "none" /\ DecodeMismatch) => dc.err # NoErr

C30_DisconnectOnce == client.disconnects <= 1

\* The paths of a ChangeInfo that are populated: the updated path by its
\* Updated or Matched count, the removed path by its Removed count, the
\* upserted path by its UpsertedId.
PopulatedPaths(info) ==
    (IF info.updated > 0 \/ info.matched > 0 THEN {"updated"} ELSE {})
    \cup (IF info.removed > 0 THEN {"removed"} ELSE {})
    \cup (IF info.upsertedId # 0 THEN {"upserted"} ELSE {})

\* C23: every ChangeInfo that Upsert, UpdateAll, RemoveAll or Apply returns
\* without an error has exactly one of the updated, removed and upserted
\* paths populated: never none and never more than one.
C23_ExactlyOnePath ==
    /\ coRet.done => Cardinality(PopulatedPaths(coRet.info)) = 1
    /\ (apRet.done /\ apRet.err = NoErr) => Cardinality(PopulatedPaths(apRet.info)) = 1

\* C29: an Apply with Upsert=true during which another client inserted or
\* deleted a document reports an UpsertedId if and only if the call itself
\* created a document, and then that document's identifier; when it updated
\* an existing document it reports Updated 1, Matched 1 and no UpsertedId.
C29_UpsertReportingUnderRace ==
    (apRet.done /\ apRet.err = NoErr /\ ap.upsert /\ ~ap.remove /\ apHist.raced) =>
        /\ (apRet.info.upsertedId # 0) <=> (apHist.created # 0)
        /\ apHist.created # 0 => apRet.info.upsertedId = apHist.created
        /\ apHist.created = 0 =>
             apRet.info = [EmptyInfo EXCEPT !.updated = 1, !.matched = 1]

\* C28: when Close on the write-mode handle has returned an error, no file
\* document with the handle's identifier is in the files collection, so
\* Open and OpenId do not find the file.
C28_CloseAllOrNothing ==
    (gfLast.op = "Close" /\ gfLast.h = "w" /\ gfLast.err # NoErr) =>
        IdMatches(gf["w"].id) = {}

\* C27: Close on a read-mode handle returns nil and issues no write to the
\* files or chunks collection, whether or not Read was called on the handle
\* before.
C27_ReadCloseNoWrite ==
    (gfLast.op = "Close" /\ gfLast.h = "r") =>
        (gfLast.err = NoErr /\ ~gfLast.wrote)

\* C25: on a write-mode file whose chunk size is positive and was not
\* changed after the first Write, Size() is the number of bytes Write has
\* accepted and the sum of the lengths of the buffered chunks, every
\* buffered chunk except the last holds exactly chunkSize bytes, and no
\* chunk is empty or longer than chunkSize.
C25_SizeAndChunks ==
    LET f == gf["w"]
    IN (f.exists /\ f.chunkSize > 0 /\ ~gfHist.resized) =>
          /\ Size(f) = Len(gfHist.data)
          /\ Size(f) = Len(Flatten(f.chunks))
          /\ \A i \in 1..Len(f.chunks) :
                /\ Len(f.chunks[i]) > 0
                /\ Len(f.chunks[i]) <= f.chunkSize
                /\ i < Len(f.chunks) => Len(f.chunks[i]) = f.chunkSize

\* Two Write calls have filled one chunk and begun the next, which is
\* not full.
C25_Witness ==
    /\ gf["w"].exists /\ ~gfHist.resized /\ gfHist.writes = 2
    /\ Len(gf["w"].chunks) = 2
    /\ Len(gf["w"].chunks[2]) < gf["w"].chunkSize

\* The chunks a Write of n bytes needs at most: one for each byte.
ChunksNeeded(n) == n

\* C26: whatever chunk size SetChunkSize has set, zero and negative ones
\* included, a Write appends at most one chunk more than its data needs:
\* its loop does not go on appending chunks.
C26_WriteAppendsBounded ==
    wr.pc \in {"loop", "done"} =>
        Len(wr.chunks) - wr.before <= ChunksNeeded(wr.data) + 1

\* C21: every round trip to the server, the opening of a query or
\* aggregation cursor by Iter, its Next and its Close included, waits under
\* a context with a finite timeout made for that call, and that context
\* has been released when the call has returned.
C21_RoundTripsBounded ==
    /\ rt.pc = "waiting" => rt.timeout # NoDeadline
    /\ rt.pc = "returned" => rt.released

\* C22: no variable of the package is shared between concurrent callers:
\* at no time is one caller about to write a variable that another caller
\* is about to read or write.
C22_NoSharedMutableState ==
    \A c \in Callers : \A d \in Callers \ {c} :
        ~(NextAccess(c) = "write" /\ NextAccess(d) # "none")

=============================================================================
